---------------------------- MODULE Spec2Model ----------------------------
(***************************************************************************)
(* Installation-state reconciliation of claude-code-docs: the installer    *)
(* (install.py, CrossPlatformInstaller) and the uninstaller (uninstall.py, *)
(* CrossPlatformUninstaller) as one state machine over the directories on  *)
(* disk.  Directory 0 is install_dir (~/.claude-code-docs); directories    *)
(* 1..MaxLegacy are earlier installations the host configuration refers to.*)
(* Every git invocation and every filesystem call draws its outcome from   *)
(* the outcomes the call can have.                                         *)
(***************************************************************************)
EXTENDS Integers, Sequences, FiniteSets, TLC

\* ------------------------------------------------------------- bounds
\* Legacy installation directories the configuration refers to.
MaxLegacy == 2
\* Lines of `git status --porcelain` a working copy starts with.
MaxStatusLines == 2
\* Legacy directories beside an install_dir that is a working copy with
\* changes, an operation in progress or pull.rebase set.
MaxLegacyBesideChanges == 0

\* --------------------------------------------------- program constants
INSTALL_BRANCH == "main"
OtherBranch == "dev"
Manifest == "docs/docs_manifest.json"
temp_extensions == {".tmp", ".log", ".swp"}

InstallDir == 0
LegacyDirs == 1..MaxLegacy
Dirs == 0..MaxLegacy

\* ------------------------------------------------- porcelain status
\* A status line is its two-letter state and its path.  Ext is the path's
\* ending as filename.endswith(ext) sees it.
Paths == {Manifest, "README.md", "notes.txt", "debug.log"}
Ext(p) == IF p = "debug.log" THEN ".log" ELSE "other"
Line(xy, p) == [xy |-> xy, path |-> p]
StatusLines ==
    { Line(" M", Manifest), Line("UU", Manifest), Line(" M", "README.md"),
      Line("UU", "README.md"), Line("??", "notes.txt"), Line("??", "debug.log") }
\* The listings a legacy working copy starts with: clean, the manifest alone
\* modified, another file modified.
LegacyListings == { {}, {Line(" M", Manifest)}, {Line(" M", "README.md")} }

\* `"docs/docs_manifest.json" in line`
MentionsManifest(l) == l.path = Manifest
ConflictStates == {"UU", "AA", "DD"}

\* Outcome of one git invocation through _run_git_command: exit 0, a non-zero
\* exit, or RuntimeError (timeout, executable not found).
GitOutcomes == {"ok", "nonzero", "raise"}

\* git_has_uncommitted_changes leaving the manifest out whatever the mode.
git_has_uncommitted_changes_always_excluding(out, listing, exclude_manifest) ==
    out = "ok" /\ \E l \in listing : ~MentionsManifest(l)

\* install.py _git_has_uncommitted_changes: False on every failure.
git_has_uncommitted_changes(out, listing, exclude_manifest) ==
    IF out # "ok" THEN FALSE
    ELSE IF listing = {} THEN FALSE
    ELSE IF exclude_manifest THEN \E l \in listing : ~MentionsManifest(l)
    ELSE TRUE

\* git_has_conflicts counting the manifest's conflicts whatever the mode.
git_has_conflicts_never_excluding(out, listing, exclude_manifest) ==
    out = "ok" /\ \E l \in listing : l.xy \in ConflictStates

\* install.py _git_has_conflicts
git_has_conflicts(out, listing, exclude_manifest) ==
    IF out # "ok" THEN FALSE
    ELSE \E l \in listing :
            /\ l.xy \in ConflictStates
            /\ ~(exclude_manifest /\ MentionsManifest(l))

\* install.py _git_has_untracked_files
git_has_untracked_files(out, listing) ==
    IF out # "ok" THEN FALSE
    ELSE \E l \in listing : l.xy = "??" /\ Ext(l.path) \notin temp_extensions

\* uninstall.py _git_has_uncommitted_changes: True on every failure
\* (_run_git_command returns None instead of raising).
uninstall_git_has_uncommitted_changes(out, listing) ==
    IF out # "ok" THEN TRUE ELSE listing # {}

\* ------------------------------------------------------ directories
Absent ==
    [exists |-> FALSE, git |-> FALSE, marker |-> FALSE, branch |-> INSTALL_BRANCH,
     status |-> {}, inflight |-> "none", rebase |-> "unset"]

Listings(lines) == { s \in SUBSET lines : Cardinality(s) <= MaxStatusLines }

\* What install_dir can be when a run starts.
TargetStates ==
    {Absent}
    \cup { [Absent EXCEPT !.exists = TRUE, !.git = g, !.marker = m] :
             g \in BOOLEAN, m \in BOOLEAN }
    \cup { [Absent EXCEPT !.exists = TRUE, !.git = TRUE,
                          !.status = {Line(" M", "README.md")}] }
    \cup { [exists |-> TRUE, git |-> TRUE, marker |-> TRUE, branch |-> b,
            status |-> s, inflight |-> f, rebase |-> r] :
             b \in {INSTALL_BRANCH, OtherBranch},
             s \in Listings(StatusLines), f \in {"none", "merge"},
             r \in {"unset", "true"} }

\* An install_dir with nothing pending: absent, incomplete, or a working copy
\* as a clone leaves it.
NothingPending(t) == t.status = {} /\ t.inflight = "none" /\ t.rebase = "unset"
LegacyBound(t) == IF NothingPending(t) THEN MaxLegacy ELSE MaxLegacyBesideChanges

\* What a legacy installation can be: a directory that exists (the scanner
\* keeps only existing directories), a working copy or not.
LegacyStates ==
    { [Absent EXCEPT !.exists = TRUE, !.marker = TRUE] }
    \cup { [Absent EXCEPT !.exists = TRUE, !.git = TRUE, !.marker = TRUE,
                          !.status = s] : s \in LegacyListings }

RECURSIVE SortedSeq(_)
\* list.sort() of a set of distinct paths
SortedSeq(S) ==
    IF S = {} THEN <<>>
    ELSE LET m == CHOOSE x \in S : \A y \in S : x <= y
         IN  <<m>> \o SortedSeq(S \ {m})

\* Outcomes git can have in a directory: none but an OSError when the
\* directory is gone, no exit 0 outside a working copy.
GitOutcomesIn(d) ==
    IF ~d.exists THEN {"raise"}
    ELSE IF d.git THEN GitOutcomes
    ELSE {"nonzero", "raise"}

\* What the operator can answer at input(): the stripped, lower-cased text,
\* or end of input / interrupt.
Responses == {"y", "yes", "n", "", "EOF"}

\* is_affirmative taking the empty answer (the default) for a yes.
is_affirmative_default_yes(r) == r \in {"y", "yes", ""}

\* is_affirmative going on after end of input or an interrupt.
is_affirmative_on_eof(r) == r \in {"y", "yes", "EOF"}

\* `response not in ['y', 'yes']` negated (install.py 401, uninstall.py 520)
is_affirmative(r) == r \in {"y", "yes"}

VARIABLES
    dirs,               \* the directories on disk
    command_refs,       \* directories ~/.claude/commands/docs.md names
    hook_refs,          \* directories the settings.json hooks name
    run,                \* "install" | "uninstall"
    pc,                 \* position of the run
    old_installations,  \* CrossPlatformInstaller.old_installations
    installations,      \* CrossPlatformUninstaller.installations
    idx,                \* position of the cleanup / removal loop
    current_branch,     \* _safe_git_update's local
    needs_user_confirmation,
    response,           \* what the operator answered, "none" before
    outcome,            \* what clone_or_update_repo did and returned
    result,             \* what install() / uninstall() returned
    dirs0,              \* the directories as the run found them
    at_prompt,          \* install_dir as it was when the prompt was shown
    oplog,              \* the destructive operations carried out
    verdict,            \* per directory, the last status check's answer
    paths,              \* the reconciliation paths taken
    prompted,           \* the confirmation prompt was shown
    pull_conflict,      \* the pull stopped on a merge conflict
    clone_exit0,        \* git clone reported success
    rm_failed,          \* directories whose removal raised
    pull_failed,        \* `git pull` did not exit 0
    steps,              \* the steps of the run that have been carried out
    first_run,          \* what an earlier _safe_git_update found and did
    settings,           \* ~/.claude/settings.json
    backup,             \* ~/.claude/settings.json.backup
    temp,               \* ~/.claude/settings.json.tmp
    settings_data,      \* the document a rewrite is about to write
    os_nt,              \* os.name == 'nt' / os_type == "windows"
    settings0,          \* settings.json as the rewrite found it
    fsops,              \* the file operations of the rewrite, in order
    command_file,       \* the paths ~/.claude/commands/docs.md yields
    scan_settings,      \* the paths the hooks of settings.json yield
    cwd_dir,            \* Path.cwd() when it holds docs/docs_manifest.json
    scanned,            \* what the scanner returned
    query,              \* the arguments of a git helper
    answer,             \* what the git helper returned
    home,               \* the user's home directory, as path components
    written_command,    \* the lines setup_claude_command wrote to docs.md
    written_hook,       \* the hook command setup_claude_hooks wrote
    found_paths         \* the paths find_installations collected

vars == <<dirs, command_refs, hook_refs, run, pc, old_installations,
          installations, idx, current_branch, needs_user_confirmation,
          response, outcome, result, dirs0, at_prompt, oplog, verdict, paths,
          prompted, pull_conflict, clone_exit0, rm_failed, pull_failed,
          steps, first_run, settings, backup, temp, settings_data, os_nt, settings0,
          fsops, command_file, scan_settings, cwd_dir, scanned, query, answer,
          home, written_command, written_hook, found_paths>>

\* What the installer wrote for the uninstaller to read, and what it read.
roundtrip == <<home, written_command, written_hook, found_paths>>

world == <<dirs, command_refs, hook_refs>>
locals == <<old_installations, installations, idx, current_branch,
            needs_user_confirmation>>
ghosts == <<dirs0, at_prompt, oplog, verdict, paths, prompted, pull_conflict,
            clone_exit0, rm_failed>>

\* What the update, the settings rewrite, the scanner and the git helpers
\* leave alone when another operation runs.
aux == <<roundtrip, first_run, settings, backup, temp, settings_data, os_nt, settings0,
         fsops, command_file, scan_settings, cwd_dir, scanned, query, answer>>

\* A file that does not exist.  A settings file is its shape (missing,
\* invalid JSON, a JSON object, or a JSON value of another shape), whether
\* it has a top-level key beside "hooks" (model), the "hooks" key (has_hooks),
\* an event beside "PreToolUse" (post), the "PreToolUse" key (has_pre) and
\* the elements of PreToolUse.
NoFile ==
    [shape |-> "missing", model |-> FALSE, has_hooks |-> FALSE, post |-> FALSE,
     has_pre |-> FALSE, pre |-> <<>>]

\* No earlier _safe_git_update in this session.
NoRun == [outcome |-> "none", before |-> Absent, after |-> Absent,
          pull_failed |-> FALSE]

\* What a scanner source is before it is read, what a scan returned before
\* it ran.
NoSource == [state |-> "missing", paths |-> <<>>]
NotScanned == [raised |-> FALSE, warnings |-> {}, paths |-> <<>>]

\* No helper called yet.
NoQuery == [fn |-> "none", repo |-> Absent, out |-> "ok", exclude |-> TRUE,
            steps |-> [i \in 1..4 |-> "ok"]]
NoAnswer == [done |-> FALSE, value |-> FALSE, repo |-> Absent]

UpdateIdle == first_run = NoRun
SettingsIdle ==
    /\ settings = NoFile
    /\ backup = NoFile
    /\ temp = NoFile
    /\ settings_data = NoFile
    /\ os_nt = FALSE
    /\ settings0 = NoFile
    /\ fsops = <<>>
ScanIdle ==
    /\ command_file = NoSource
    /\ scan_settings = NoSource
    /\ cwd_dir = "none"
    /\ scanned = NotScanned
QueryIdle ==
    /\ query = NoQuery
    /\ answer = NoAnswer
RoundTripIdle ==
    /\ home = <<>>
    /\ written_command = <<>>
    /\ written_hook = <<>>
    /\ found_paths = <<>>


\* The state after construction (old_installations = [], no git command run
\* yet), for every disk the constructor can find.
Init ==
    /\ run \in {"install", "uninstall"}
    /\ \E n \in 0..MaxLegacy, tref \in BOOLEAN, t \in TargetStates,
          ls \in [LegacyDirs -> LegacyStates] :
         /\ dirs = [d \in Dirs |-> IF d = InstallDir THEN t
                                   ELSE IF d <= n THEN ls[d] ELSE Absent]
         /\ n <= LegacyBound(t)
         /\ tref => dirs[InstallDir].exists
         /\ run = "install" => (tref <=> dirs[InstallDir].marker)
         /\ command_refs = (IF n >= 1 THEN {1} ELSE {})
                             \cup (IF tref THEN {InstallDir} ELSE {})
         /\ hook_refs = (2..n) \cup (IF tref THEN {InstallDir} ELSE {})
    /\ pc = IF run = "install" THEN "check_dependencies" ELSE "find_installations"
    /\ old_installations = <<>>
    /\ installations = <<>>
    /\ idx = 1
    /\ current_branch = "none"
    /\ needs_user_confirmation = FALSE
    /\ response = "none"
    /\ outcome = "none"
    /\ result = "none"
    /\ dirs0 = dirs
    /\ at_prompt = Absent
    /\ oplog = {}
    /\ verdict = [d \in Dirs |-> "none"]
    /\ paths = {}
    /\ prompted = FALSE
    /\ pull_conflict = FALSE
    /\ clone_exit0 = FALSE
    /\ rm_failed = {}
    /\ pull_failed = FALSE
    /\ steps = <<>>
    /\ UpdateIdle
    /\ RoundTripIdle
    /\ SettingsIdle
    /\ ScanIdle
    /\ QueryIdle

\* install(): check_dependencies fails -> return False
CheckDependencies ==
    /\ pc = "check_dependencies"
    /\ \E ok \in BOOLEAN :
         IF ok THEN pc' = "find_existing_installations" /\ result' = result
         ELSE pc' = "done" /\ result' = "failed"
    /\ UNCHANGED <<world, run, locals, response, outcome, ghosts>>
    /\ UNCHANGED <<pull_failed, steps, aux>>

\* `except Exception` around the command file (install.py 803-805,
\* uninstall.py 214-216): nothing raises.
command_file_raises(src) == FALSE

\* `except (json.JSONDecodeError, FileNotFoundError)` around settings.json
\* (install.py 867-869, uninstall.py 276-278): PermissionError, and the
\* AttributeError / TypeError of `.get` or iteration on a value of another
\* shape, pass through.
settings_raises(src) == src.state \in {"unreadable", "bad_shape"}

\* How the read of settings.json can go in a run: the hooks are read, open
\* raises PermissionError, or the document has another shape.
SettingsReads ==
    { [state |-> s, paths |-> <<>>] : s \in {"ok", "unreadable", "bad_shape"} }

\* find_existing_installations keeping install_dir on the list.
find_existing_installations_with_target(ds, crefs, hrefs) ==
    SortedSeq({ d \in crefs \cup hrefs : ds[d].exists })

\* find_existing_installations: existing directories the command file or the
\* hooks name, install_dir excluded, deduplicated and sorted.
find_existing_installations(ds, crefs, hrefs) ==
    SortedSeq({ d \in (crefs \cup hrefs) \ {InstallDir} : ds[d].exists })

\* install() calls the scanner outside any try (install.py 1431): what the
\* scanner raises ends the run with a traceback.
FindExistingInstallations ==
    /\ pc = "find_existing_installations"
    /\ \E sf \in SettingsReads :
         IF settings_raises(sf)
         THEN /\ pc' = "done" /\ result' = "raised"
              /\ old_installations' = old_installations
         ELSE /\ pc' = "clone_or_update_repo" /\ result' = result
              /\ old_installations' =
                   find_existing_installations(dirs, command_refs, hook_refs)
    /\ UNCHANGED <<world, run, installations, idx, current_branch,
                   needs_user_confirmation, response, outcome, ghosts>>
    /\ UNCHANGED <<pull_failed, steps, aux>>


\* -------------------------------------------------- clone_or_update_repo
\* choose_path testing install_dir alone, not the marker file in it.
choose_path_by_existence(t, old) ==
    IF t.exists THEN "update"
    ELSE IF Len(old) > 0 THEN "migrate"
    ELSE "fresh"

\* The branch clone_or_update_repo takes (install.py 903, 917).
choose_path(t, old) ==
    IF t.exists /\ t.marker THEN "update"
    ELSE IF Len(old) > 0 THEN "migrate"
    ELSE "fresh"

CloneOrUpdateRepo ==
    /\ pc = "clone_or_update_repo"
    /\ LET p == choose_path(dirs[InstallDir], old_installations)
       IN  pc' = CASE p = "update"  -> "safe_git_update"
                   [] p = "migrate" -> "migrate_installation"
                   [] OTHER         -> "fresh_clone"
    /\ UNCHANGED <<world, run, locals, response, outcome, result, ghosts>>
    /\ UNCHANGED <<pull_failed, steps, aux>>

\* ------------------------------------------------------------ _fresh_clone
\* How one _fresh_clone can go: mkdir of the parent raises; rmtree of an
\* existing install_dir raises; git clone exits non-zero; git clone times out
\* (leaving nothing, or a partial directory); chdir raises; the clone lacks
\* the marker file; all is well.
FreshCloneCases ==
    {"mkdir_raises", "rmtree_raises", "clone_nonzero", "clone_timeout",
     "clone_timeout_partial", "chdir_raises", "no_marker", "ok"}

Cloned(m) ==
    [exists |-> TRUE, git |-> TRUE, marker |-> m, branch |-> INSTALL_BRANCH,
     status |-> {}, inflight |-> "none", rebase |-> "unset"]

\* clone_verified without the look for the marker file.
clone_unverified(t) == t.exists

\* `if not (install_dir / "docs" / "docs_manifest.json").exists(): return False`
clone_verified(t) == t.exists /\ t.marker

\* _fresh_clone on install_dir t: the value returned, install_dir afterwards,
\* whether rmtree removed an existing install_dir, whether clone exited 0.
fresh_clone(t, c) ==
    IF c = "mkdir_raises" THEN
        [ok |-> FALSE, dir |-> t, removed |-> FALSE, exit0 |-> FALSE]
    ELSE IF t.exists /\ c = "rmtree_raises" THEN
        [ok |-> FALSE, dir |-> t, removed |-> FALSE, exit0 |-> FALSE]
    ELSE IF c \in {"clone_nonzero", "clone_timeout"} THEN
        [ok |-> FALSE, dir |-> Absent, removed |-> t.exists, exit0 |-> FALSE]
    ELSE IF c = "clone_timeout_partial" THEN
        [ok |-> FALSE, dir |-> [Absent EXCEPT !.exists = TRUE],
         removed |-> t.exists, exit0 |-> FALSE]
    ELSE IF c = "chdir_raises" THEN
        [ok |-> FALSE, dir |-> Cloned(TRUE), removed |-> t.exists, exit0 |-> TRUE]
    ELSE
        LET n == Cloned(c # "no_marker")
        IN  [ok |-> clone_verified(n), dir |-> n, removed |-> t.exists,
             exit0 |-> TRUE]

\* reconciled going on to the configuration whatever the outcome.
reconciled_regardless(ok) == TRUE

\* `if not self.clone_or_update_repo(): return False` (install.py 1434-1435),
\* negated: install() goes on only when reconciliation returned True.
reconciled(ok) == ok

\* rmtree_raises needs an install_dir to remove.
FreshCloneCasesOf(t) ==
    IF t.exists THEN FreshCloneCases ELSE FreshCloneCases \ {"rmtree_raises"}

\* One destructive operation, with what the run knew when it carried it out.
LogEntry(d, op, by) ==
    [dir |-> d, op |-> op, by |-> by, git |-> dirs[d].git,
     check |-> verdict[d], confirmed |-> is_affirmative(response)]

FreshLog(fc) ==
    IF fc.removed THEN {LogEntry(InstallDir, "rmtree", "fresh_clone")} ELSE {}

FreshClone ==
    /\ pc = "fresh_clone"
    /\ \E c \in FreshCloneCasesOf(dirs[InstallDir]) :
         LET fc == fresh_clone(dirs[InstallDir], c)
         IN  /\ dirs' = [dirs EXCEPT ![InstallDir] = fc.dir]
             /\ oplog' = oplog \cup FreshLog(fc)
             /\ clone_exit0' = fc.exit0
             /\ outcome' = IF fc.ok THEN "freshInstalled" ELSE "failed"
             /\ IF reconciled(fc.ok)
                THEN pc' = "setup_helper_script" /\ result' = result
                ELSE pc' = "done" /\ result' = "failed"
    /\ paths' = paths \cup {"fresh"}
    /\ UNCHANGED <<command_refs, hook_refs, run, locals, response, dirs0,
                   at_prompt, verdict, prompted, pull_conflict, rm_failed>>
    /\ UNCHANGED <<pull_failed, steps, aux>>

\* ---------------------------------------------------- _migrate_installation
\* The answer a status check gave, for the record.
Verdict(out, listing) ==
    IF out # "ok" THEN "error" ELSE IF listing = {} THEN "clean" ELSE "dirty"

\* `if (old_dir / ".git").exists(): should_preserve = ...` (install.py 935)
should_preserve(d, out) ==
    d.git /\ git_has_uncommitted_changes(out, d.status, FALSE)

\* migrate_removes_old not waiting for the clone's result.
migrate_removes_old_unchecked(cloned, preserve) == ~preserve

\* `if not self._fresh_clone(): return False`, then `if not should_preserve:`
migrate_removes_old(cloned, preserve) == cloned /\ ~preserve

\* migrated_candidate taking the last directory of the list.
migrated_candidate_last(olds) == olds[Len(olds)]

\* `old_install = self.old_installations[0]` (install.py 918)
migrated_candidate(olds) == olds[1]

MigrateInstallation ==
    /\ pc = "migrate_installation"
    /\ LET old == migrated_candidate(old_installations)
       IN  \E out \in GitOutcomesIn(dirs[old]),
              c \in FreshCloneCasesOf(dirs[InstallDir]),
              rm \in {"ok", "raises"} :
             LET keep == should_preserve(dirs[old], out)
                 fc == fresh_clone(dirs[InstallDir], c)
                 del == migrate_removes_old(fc.ok, keep)
                 v == IF dirs[old].git
                      THEN [verdict EXCEPT ![old] = Verdict(out, dirs[old].status)]
                      ELSE verdict
             IN  /\ ~dirs[old].git => out = "raise"
                 /\ ~del => rm = "ok"
                 /\ verdict' = v
                 /\ dirs' = [dirs EXCEPT
                               ![InstallDir] = fc.dir,
                               ![old] = IF del /\ rm = "ok" THEN Absent ELSE @]
                 /\ oplog' = oplog \cup FreshLog(fc) \cup
                       (IF del
                        THEN {[dir |-> old, op |-> "rmtree", by |-> "migrate",
                               git |-> dirs[old].git, check |-> v[old],
                               confirmed |-> FALSE]}
                        ELSE {})
                 /\ rm_failed' = IF del /\ rm = "raises"
                                 THEN rm_failed \cup {old} ELSE rm_failed
                 /\ clone_exit0' = fc.exit0
                 /\ outcome' = IF fc.ok THEN "migrated" ELSE "failed"
                 /\ IF reconciled(fc.ok)
                    THEN pc' = "setup_helper_script" /\ result' = result
                    ELSE pc' = "done" /\ result' = "failed"
    /\ paths' = paths \cup {"migrate"}
    /\ UNCHANGED <<command_refs, hook_refs, run, locals, response, dirs0,
                   at_prompt, prompted, pull_conflict>>
    /\ UNCHANGED <<pull_failed, steps, aux>>

\* -------------------------------------------------------- _safe_git_update
HasConflictLines(t) == \E l \in t.status : l.xy \in ConflictStates

\* _git_get_current_branch: "unknown" on every failure
git_get_current_branch(t, out) == IF out = "ok" THEN t.branch ELSE "unknown"

\* set_pull_rebase writing the setting whatever it was.
set_pull_rebase_always(t, get, set) ==
    IF get = "ok" /\ set = "ok" THEN [t EXCEPT !.rebase = "false"] ELSE t

\* `git config pull.rebase` exits non-zero when the key is unset; only then
\* `git config pull.rebase false` runs (install.py 333-338).
set_pull_rebase(t, get, set) ==
    IF get = "ok" /\ t.rebase = "unset" /\ set = "ok"
    THEN [t EXCEPT !.rebase = "false"]
    ELSE t

\* git pull exits 0 only in a working copy with nothing in progress and
\* nothing unmerged.
CanPull(t) == t.exists /\ t.git /\ t.inflight = "none" /\ ~HasConflictLines(t)

\* A pull that stops on a merge conflict leaves the merge (the rebase, under
\* pull.rebase true) in progress and the path unmerged.
Conflicted(t, p) ==
    [t EXCEPT !.status = @ \cup {Line("UU", p)},
              !.inflight = IF t.rebase = "true" THEN "rebase" ELSE "merge"]

\* pull_returns going on to the forced update whatever the pull's exit code.
pull_returns_never(pull) == FALSE

\* `if result.returncode == 0: return True` (install.py 349-350)
pull_returns(pull) == pull = "ok"

\* Branch query, pull.rebase, `git pull --quiet origin main` (install.py
\* 321-352): a successful pull returns True.
SafeGitUpdatePull ==
    /\ pc = "safe_git_update"
    /\ \E ob \in GitOutcomesIn(dirs[InstallDir]),
          get \in {"ok", "raise"}, set \in {"ok", "nonzero"},
          pull \in GitOutcomesIn(dirs[InstallDir]),
          conflict \in {"none", Manifest, "README.md"} :
         LET t0 == dirs[InstallDir]
             t1 == IF t0.git THEN set_pull_rebase(t0, get, set) ELSE t0
             t2 == IF conflict = "none" THEN t1 ELSE Conflicted(t1, conflict)
         IN  /\ (get = "raise" \/ t0.rebase # "unset") => set = "ok"
             /\ pull = "ok" => CanPull(t0)
             /\ conflict # "none" => (pull = "nonzero" /\ CanPull(t0))
             /\ current_branch' = git_get_current_branch(t0, ob)
             /\ dirs' = [dirs EXCEPT ![InstallDir] = t2]
             /\ pull_conflict' = (conflict # "none")
             /\ pull_failed' = (pull # "ok")
             /\ steps' = Append(steps, IF pull = "ok" THEN "pull_ok"
                                                     ELSE "pull_failed")
             /\ IF pull_returns(pull)
                THEN outcome' = "updated" /\ pc' = "setup_helper_script"
                ELSE outcome' = outcome /\ pc' = "fetch"
    /\ paths' = paths \cup {"update"}
    /\ UNCHANGED <<command_refs, hook_refs, run, old_installations,
                   installations, idx, needs_user_confirmation, response,
                   result, dirs0, at_prompt, oplog, verdict, prompted,
                   clone_exit0, rm_failed>>
    /\ UNCHANGED aux

\* fetch_succeeded taking a non-zero exit for a success.
fetch_succeeded_unless_raised(out) == out # "raise"

\* `if result.returncode != 0: return False` and `except Exception: return
\* False` (install.py 364-369), negated.
fetch_succeeded(out) == out = "ok"

\* `git fetch origin main`: a failure returns False (install.py 357-369).
SafeGitUpdateFetch ==
    /\ pc = "fetch"
    /\ \E out \in GitOutcomesIn(dirs[InstallDir]) :
         /\ steps' = Append(steps, IF out = "ok" THEN "fetch_ok"
                                                 ELSE "fetch_failed")
         /\ IF fetch_succeeded(out)
            THEN pc' = "detect" /\ outcome' = outcome /\ result' = result
            ELSE pc' = "done" /\ outcome' = "failed" /\ result' = "failed"
    /\ UNCHANGED <<world, run, locals, response, ghosts>>
    /\ UNCHANGED <<pull_failed, aux>>

\* needs_confirmation querying the status on a branch switch too.
needs_confirmation_any_branch(branch, t, o1, o2, o3) ==
    \/ git_has_conflicts(o1, t.status, TRUE)
    \/ git_has_uncommitted_changes(o2, t.status, TRUE)
    \/ git_has_untracked_files(o3, t.status)

\* needs_confirmation counting the changes to the manifest as well.
needs_confirmation_counting_manifest(branch, t, o1, o2, o3) ==
    IF branch # INSTALL_BRANCH THEN FALSE
    ELSE \/ git_has_conflicts(o1, t.status, FALSE)
         \/ git_has_uncommitted_changes(o2, t.status, FALSE)
         \/ git_has_untracked_files(o3, t.status)

\* `needs_user_confirmation = False; if current_branch != target_branch: ...
\* else: has_conflicts or has_local_changes or has_untracked` (371-381);
\* o1..o3 are the outcomes of the three status queries.
needs_confirmation(branch, t, o1, o2, o3) ==
    IF branch # INSTALL_BRANCH THEN FALSE
    ELSE \/ git_has_conflicts(o1, t.status, TRUE)
         \/ git_has_uncommitted_changes(o2, t.status, TRUE)
         \/ git_has_untracked_files(o3, t.status)

\* Change detection (install.py 371-424): three status queries on the target
\* branch, none on a branch switch; the manifest-only query when there is
\* nothing to confirm, whose RuntimeError ends the update.  A query that is
\* not made is counted "ok".
SafeGitUpdateDetect ==
    /\ pc = "detect"
    /\ \E o1 \in GitOutcomes, o2 \in GitOutcomes, o3 \in GitOutcomes,
          o4 \in GitOutcomes :
         LET t == dirs[InstallDir]
             switch == current_branch # INSTALL_BRANCH
             need == needs_confirmation(current_branch, t, o1, o2, o3)
         IN  /\ IF switch THEN o1 = "ok" /\ o2 = "ok" /\ o3 = "ok"
                ELSE {o1, o2, o3} \subseteq GitOutcomesIn(t)
             /\ IF switch \/ need THEN o4 = "ok" ELSE o4 \in GitOutcomesIn(t)
             /\ needs_user_confirmation' = need
             /\ steps' = Append(steps, "detect")
             /\ verdict' = IF switch THEN verdict
                           ELSE [verdict EXCEPT ![InstallDir] =
                                   IF {o1, o2, o3} # {"ok"} \/ o4 = "raise"
                                   THEN "error"
                                   ELSE IF need THEN "dirty" ELSE "clean"]
             /\ IF need
                THEN /\ pc' = "prompt" /\ prompted' = TRUE /\ at_prompt' = t
                     /\ outcome' = outcome /\ result' = result
                ELSE /\ prompted' = prompted /\ at_prompt' = at_prompt
                     /\ IF o4 = "raise"
                        THEN pc' = "done" /\ outcome' = "failed"
                                          /\ result' = "failed"
                        ELSE pc' = "force" /\ outcome' = outcome
                                           /\ result' = result
    /\ UNCHANGED <<world, run, old_installations, installations, idx,
                   current_branch, response, dirs0, oplog, paths,
                   pull_conflict, clone_exit0, rm_failed>>
    /\ UNCHANGED <<pull_failed, aux>>

\* input("Continue and discard local changes? [y/N]: ") (install.py 399-409)
SafeGitUpdatePrompt ==
    /\ pc = "prompt"
    /\ steps' = Append(steps, "prompt")
    /\ \E r \in Responses :
         /\ response' = r
         /\ IF is_affirmative(r)
            THEN pc' = "force" /\ outcome' = outcome /\ result' = result
            ELSE pc' = "done" /\ outcome' = "failed" /\ result' = "failed"
    /\ UNCHANGED <<world, run, locals, ghosts>>
    /\ UNCHANGED <<pull_failed, aux>>

\* `git merge --abort`, `git rebase --abort`: each ends the operation it names
\* when that one is in progress and the command succeeds; every failure is
\* swallowed (_git_abort_operations).
git_abort_operations(t, om, orb) ==
    LET t1 == IF om = "ok" /\ t.inflight = "merge"
              THEN [t EXCEPT !.inflight = "none",
                             !.status = { l \in @ : l.xy \notin ConflictStates }]
              ELSE t
    IN  IF orb = "ok" /\ t1.inflight = "rebase"
        THEN [t1 EXCEPT !.inflight = "none",
                        !.status = { l \in @ : l.xy \notin ConflictStates }]
        ELSE t1

\* What each step of the forced checkout leaves when it exits 0.
AfterReset(t) ==
    [t EXCEPT !.status = { IF l.xy \in ConflictStates THEN Line(" M", l.path)
                           ELSE l : l \in @ },
              !.inflight = IF @ = "merge" THEN "none" ELSE @]
AfterCheckout(t) == [t EXCEPT !.branch = INSTALL_BRANCH]
AfterResetHard(t) ==
    [t EXCEPT !.status = { l \in @ : l.xy = "??" },
              !.inflight = IF @ = "merge" THEN "none" ELSE @]
AfterClean(t) == [t EXCEPT !.status = { l \in @ : l.xy # "??" }]

\* _git_force_clean_checkout: reset (exit code ignored), checkout -B and
\* reset --hard (a non-zero exit returns False), clean -fd (exit code ignored);
\* a RuntimeError of any step returns False.  o[i] is step i's outcome.
git_force_clean_checkout(t, o) ==
    IF o[1] = "raise" THEN [ok |-> FALSE, dir |-> t]
    ELSE LET t1 == IF o[1] = "ok" THEN AfterReset(t) ELSE t
         IN  IF o[2] # "ok" THEN [ok |-> FALSE, dir |-> t1]
             ELSE LET t2 == AfterCheckout(t1)
                  IN  IF o[3] # "ok" THEN [ok |-> FALSE, dir |-> t2]
                      ELSE LET t3 == AfterResetHard(t2)
                           IN  IF o[4] = "raise" THEN [ok |-> FALSE, dir |-> t3]
                               ELSE IF o[4] = "ok"
                                    THEN [ok |-> TRUE, dir |-> AfterClean(t3)]
                                    ELSE [ok |-> TRUE, dir |-> t3]

\* The outcomes of the four steps, a step that is not reached counted "ok".
ForceOutcomes(t) ==
    { o \in [1..4 -> GitOutcomes] :
        /\ \A i \in 1..4 : o[i] \in GitOutcomesIn(t) \cup {"ok"}
        /\ o[1] = "raise" => (o[2] = "ok" /\ o[3] = "ok" /\ o[4] = "ok")
        /\ o[2] # "ok" => (o[3] = "ok" /\ o[4] = "ok")
        /\ o[3] # "ok" => o[4] = "ok"
        /\ ~t.git => o[1] # "ok" /\ o[2] # "ok" }

\* abort_raises letting a RuntimeError of an abort end the update.
abort_raises_on_error(om, orb) == om = "raise" \/ orb = "raise"

\* `except Exception: pass` around each abort (install.py 278-288): nothing
\* of _git_abort_operations reaches the caller.
abort_raises(om, orb) == FALSE

\* Abort of whatever is in progress, then the forced clean checkout
\* (install.py 425-440).
SafeGitUpdateForce ==
    /\ pc = "force"
    /\ \E om \in GitOutcomesIn(dirs[InstallDir]),
          orb \in GitOutcomesIn(dirs[InstallDir]),
          o \in ForceOutcomes(dirs[InstallDir]) :
         LET t0 == dirs[InstallDir]
             t1 == git_abort_operations(t0, om, orb)
             fc == git_force_clean_checkout(t1, o)
         IN  /\ om = "ok" => t0.inflight = "merge"
             /\ orb = "ok" => t0.inflight = "rebase"
             /\ IF abort_raises(om, orb)
                THEN /\ dirs' = [dirs EXCEPT ![InstallDir] = t1]
                     /\ oplog' = oplog
                     /\ steps' = Append(steps, "abort")
                     /\ outcome' = "failed" /\ pc' = "done"
                                            /\ result' = "failed"
                ELSE /\ dirs' = [dirs EXCEPT ![InstallDir] = fc.dir]
                     /\ oplog' = oplog \cup
                          {LogEntry(InstallDir, "force_clean_checkout", "update")}
                     /\ steps' = steps \o <<"abort", IF fc.ok THEN "force_ok"
                                                     ELSE "force_failed">>
                     /\ outcome' = IF fc.ok THEN "updated" ELSE "failed"
                     /\ IF reconciled(fc.ok)
                        THEN pc' = "setup_helper_script" /\ result' = result
                        ELSE pc' = "done" /\ result' = "failed"
    /\ UNCHANGED <<command_refs, hook_refs, run, locals, response, dirs0,
                   at_prompt, verdict, paths, prompted, pull_conflict,
                   clone_exit0, rm_failed>>
    /\ UNCHANGED <<pull_failed, aux>>

\* ------------------------------------------------ configuration rewiring
\* step_succeeded going on to the next step whatever the step returned.
step_succeeded_regardless(ok) == TRUE

\* `if not self._setup_helper_script(): return False` and the like (install.py
\* 1438-1446), negated.
step_succeeded(ok) == ok

\* _setup_helper_script: the template copied or downloaded, or False.
SetupHelperScript ==
    /\ pc = "setup_helper_script"
    /\ \E ok \in BOOLEAN :
         /\ steps' = IF ok THEN Append(steps, "helper_script") ELSE steps
         /\ IF step_succeeded(ok)
            THEN pc' = "setup_claude_command" /\ result' = result
            ELSE pc' = "done" /\ result' = "failed"
    /\ UNCHANGED <<world, run, locals, response, outcome, ghosts>>
    /\ UNCHANGED <<pull_failed, aux>>

\* setup_claude_command: docs.md rewritten to name install_dir, or False.
SetupClaudeCommand ==
    /\ pc = "setup_claude_command"
    /\ \E ok \in BOOLEAN :
         /\ steps' = IF ok THEN Append(steps, "command_file") ELSE steps
         /\ command_refs' = IF ok THEN {InstallDir} ELSE command_refs
         /\ IF step_succeeded(ok)
            THEN pc' = "setup_claude_hooks" /\ result' = result
            ELSE pc' = "done" /\ result' = "failed"
    /\ UNCHANGED <<dirs, hook_refs, run, locals, response, outcome, ghosts>>
    /\ UNCHANGED <<pull_failed, aux>>

\* setup_claude_hooks: every claude-code-docs hook replaced by the one naming
\* install_dir, or False.
SetupClaudeHooks ==
    /\ pc = "setup_claude_hooks"
    /\ \E ok \in BOOLEAN :
         /\ steps' = IF ok THEN Append(steps, "hooks") ELSE steps
         /\ hook_refs' = IF ok THEN {InstallDir} ELSE hook_refs
         /\ IF step_succeeded(ok)
            THEN pc' = "cleanup_old_installations" /\ result' = result
            ELSE pc' = "done" /\ result' = "failed"
    /\ idx' = 1
    /\ UNCHANGED <<dirs, command_refs, run, old_installations, installations,
                   current_branch, needs_user_confirmation, response, outcome,
                   ghosts>>
    /\ UNCHANGED <<pull_failed, aux>>

\* ------------------------------------------------- cleanup_old_installations
\* is_git_repo testing the directory, not the .git directory in it.
is_git_repo_by_existence(d) == d.exists

\* `git_dir.is_dir()`
is_git_repo(d) == d.exists /\ d.git

\* cleanup_decision leaving exclude_manifest at its default, True.
cleanup_decision_default_exclude(d, out) ==
    IF is_git_repo(d)
    THEN IF ~git_has_uncommitted_changes(out, d.status, TRUE)
         THEN "remove" ELSE "preserve"
    ELSE "preserve"

\* What the installer's cleanup does with one directory (install.py 1394-1417).
cleanup_decision(d, out) ==
    IF is_git_repo(d)
    THEN IF ~git_has_uncommitted_changes(out, d.status, FALSE)
         THEN "remove" ELSE "preserve"
    ELSE "preserve"

\* loop_aborts ending the loop at the first failure.
loop_aborts_on_failure(out, rm) == out # "ok" \/ rm = "raises"

\* `except Exception as e: print(...)` around the status check and around
\* rmtree (install.py 1397-1414, uninstall.py 462-486): the loop goes on to
\* the next directory whatever happened to this one.
loop_aborts(out, rm) == FALSE

\* One turn of `for old_dir in self.old_installations`.
CleanupOldInstallation ==
    /\ pc = "cleanup_old_installations"
    /\ idx <= Len(old_installations)
    /\ LET old == old_installations[idx]
       IN  \E out \in GitOutcomesIn(dirs[old]), rm \in {"ok", "raises"} :
             LET del == cleanup_decision(dirs[old], out) = "remove"
                 v == IF is_git_repo(dirs[old])
                      THEN [verdict EXCEPT ![old] = Verdict(out, dirs[old].status)]
                      ELSE verdict
             IN  /\ ~is_git_repo(dirs[old]) => out = "raise"
                 /\ ~del => rm = "ok"
                 /\ verdict' = v
                 /\ dirs' = [dirs EXCEPT ![old] = IF del /\ rm = "ok"
                                                  THEN Absent ELSE @]
                 /\ oplog' = oplog \cup
                       (IF del
                        THEN {[dir |-> old, op |-> "rmtree", by |-> "cleanup",
                               git |-> dirs[old].git, check |-> v[old],
                               confirmed |-> FALSE]}
                        ELSE {})
                 /\ rm_failed' = IF del /\ rm = "raises"
                                 THEN rm_failed \cup {old} ELSE rm_failed
                 /\ IF loop_aborts(out, rm)
                    THEN pc' = "done" /\ result' = "failed" /\ idx' = idx
                    ELSE pc' = pc /\ result' = result /\ idx' = idx + 1
    /\ UNCHANGED <<command_refs, hook_refs, run, old_installations,
                   installations, current_branch, needs_user_confirmation,
                   response, outcome, dirs0, at_prompt, paths,
                   prompted, pull_conflict, clone_exit0>>
    /\ UNCHANGED <<pull_failed, steps, aux>>

\* cleanup_old_installations returns True, and install() with it.
CleanupReturn ==
    /\ pc = "cleanup_old_installations"
    /\ idx > Len(old_installations)
    /\ pc' = "done"
    /\ result' = "ok"
    /\ UNCHANGED <<world, run, locals, response, outcome, ghosts>>
    /\ UNCHANGED <<pull_failed, steps, aux>>

\* ---------------------------------------------------------------- uninstall
\* find_installations: as the installer's scan, install_dir not excluded.
find_installations(ds, crefs, hrefs) ==
    SortedSeq({ d \in crefs \cup hrefs : ds[d].exists })

\* uninstall() calls the scanner outside any try (uninstall.py 501).
FindInstallations ==
    /\ pc = "find_installations"
    /\ \E sf \in SettingsReads :
         IF settings_raises(sf)
         THEN /\ pc' = "done" /\ result' = "raised"
              /\ installations' = installations
         ELSE /\ pc' = "confirm" /\ result' = result
              /\ installations' =
                   find_installations(dirs, command_refs, hook_refs)
    /\ UNCHANGED <<world, run, old_installations, idx, current_branch,
                   needs_user_confirmation, response, outcome, ghosts>>
    /\ UNCHANGED <<pull_failed, steps, aux>>

\* input("Continue? (y/N): ") (uninstall.py 518-525)
UninstallConfirm ==
    /\ pc = "confirm"
    /\ \E r \in Responses :
         /\ response' = r
         /\ IF is_affirmative(r)
            THEN pc' = "remove_command_file" /\ result' = result
            ELSE pc' = "done" /\ result' = "failed"
    /\ UNCHANGED <<world, run, locals, outcome, ghosts>>
    /\ UNCHANGED <<pull_failed, steps, aux>>

\* remove_command_file: docs.md unlinked, or False.
RemoveCommandFile ==
    /\ pc = "remove_command_file"
    /\ \E ok \in BOOLEAN :
         IF ok THEN /\ pc' = "remove_hooks" /\ result' = result
                    /\ command_refs' = {}
         ELSE pc' = "done" /\ result' = "failed" /\ command_refs' = command_refs
    /\ UNCHANGED <<dirs, hook_refs, run, locals, response, outcome, ghosts>>
    /\ UNCHANGED <<pull_failed, steps, aux>>

\* remove_hooks: every claude-code-docs hook filtered out, or False.
RemoveHooks ==
    /\ pc = "remove_hooks"
    /\ \E ok \in BOOLEAN :
         /\ steps' = IF ok THEN Append(steps, "hooks_removed") ELSE steps
         /\ IF ok THEN /\ pc' = "remove_directories" /\ result' = result
                       /\ hook_refs' = {}
            ELSE pc' = "done" /\ result' = "failed" /\ hook_refs' = hook_refs
    /\ idx' = 1
    /\ UNCHANGED <<dirs, command_refs, run, old_installations, installations,
                   current_branch, needs_user_confirmation, response, outcome,
                   ghosts>>
    /\ UNCHANGED <<pull_failed, aux>>

\* What the uninstaller does with one directory (uninstall.py 454-490).
remove_decision(d, out) ==
    IF ~d.exists THEN "skip"
    ELSE IF is_git_repo(d)
    THEN IF ~uninstall_git_has_uncommitted_changes(out, d.status)
         THEN "remove" ELSE "preserve"
    ELSE "preserve"

\* One turn of `for path in self.installations`.
RemoveDirectory ==
    /\ pc = "remove_directories"
    /\ idx <= Len(installations)
    /\ LET d == installations[idx]
       IN  \E out \in GitOutcomesIn(dirs[d]), rm \in {"ok", "raises"} :
             LET del == remove_decision(dirs[d], out) = "remove"
                 v == IF is_git_repo(dirs[d])
                      THEN [verdict EXCEPT ![d] = Verdict(out, dirs[d].status)]
                      ELSE verdict
             IN  /\ ~is_git_repo(dirs[d]) => out = "raise"
                 /\ ~del => rm = "ok"
                 /\ verdict' = v
                 /\ dirs' = [dirs EXCEPT ![d] = IF del /\ rm = "ok"
                                                THEN Absent ELSE @]
                 /\ oplog' = oplog \cup
                       (IF del
                        THEN {[dir |-> d, op |-> "rmtree", by |-> "uninstall",
                               git |-> dirs[d].git, check |-> v[d],
                               confirmed |-> is_affirmative(response)]}
                        ELSE {})
                 /\ rm_failed' = IF del /\ rm = "raises"
                                 THEN rm_failed \cup {d} ELSE rm_failed
                 /\ IF loop_aborts(out, rm)
                    THEN pc' = "done" /\ result' = "failed" /\ idx' = idx
                    ELSE pc' = pc /\ result' = result /\ idx' = idx + 1
    /\ UNCHANGED <<command_refs, hook_refs, run, old_installations,
                   installations, current_branch, needs_user_confirmation,
                   response, outcome, dirs0, at_prompt, paths,
                   prompted, pull_conflict, clone_exit0>>
    /\ UNCHANGED <<pull_failed, steps, aux>>

\* remove_directories returns True, and uninstall() with it.
RemoveDirectoriesReturn ==
    /\ pc = "remove_directories"
    /\ idx > Len(installations)
    /\ pc' = "done"
    /\ result' = "ok"
    /\ UNCHANGED <<world, run, locals, response, outcome, ghosts>>
    /\ UNCHANGED <<pull_failed, steps, aux>>

Next ==
    \/ CheckDependencies
    \/ FindExistingInstallations
    \/ CloneOrUpdateRepo
    \/ FreshClone
    \/ MigrateInstallation
    \/ SafeGitUpdatePull
    \/ SafeGitUpdateFetch
    \/ SafeGitUpdateDetect
    \/ SafeGitUpdatePrompt
    \/ SafeGitUpdateForce
    \/ SetupHelperScript
    \/ SetupClaudeCommand
    \/ SetupClaudeHooks
    \/ CleanupOldInstallation
    \/ CleanupReturn
    \/ FindInstallations
    \/ UninstallConfirm
    \/ RemoveCommandFile
    \/ RemoveHooks
    \/ RemoveDirectory
    \/ RemoveDirectoriesReturn

Spec == Init /\ [][Next]_vars
\* ------------------------------------------------------------ properties
\* The working tree, the index and the operation in progress of a working copy.
WorkingCopy(t) == <<t.status, t.inflight, t.branch>>

\* The answers that are not y / yes: another text, empty, end of input.
DeclineAnswers == {"n", "", "EOF"}

\* Directory d has had its turn in the cleanup / removal loop.
Handled(d) ==
    /\ pc \in {"cleanup_old_installations", "remove_directories", "done"}
    /\ LET list == IF run = "install" THEN old_installations ELSE installations
       IN  \E i \in 1..Len(list) : list[i] = d /\ i < idx

\* C1: in an install run every data-loss-risk operation (the forced clean
\* checkout of install_dir, a directory removed by migration, cleanup or
\* _fresh_clone) was carried out after a status check of that directory
\* reported no uncommitted changes, or after the operator confirmed.
C1_DestructiveOpsGated ==
    run = "install" =>
        \A e \in oplog : e.check = "clean" \/ e.confirmed

\* C2 as stated: once the operator has declined the prompt, the update has
\* failed, no forced checkout has run and the working tree, index and
\* operation in progress of install_dir are as they were before the run.
C2_DeclineRestoresStart ==
    (run = "install" /\ prompted /\ response \in DeclineAnswers) =>
        /\ outcome = "failed"
        /\ \A e \in oplog : e.dir # InstallDir
        /\ WorkingCopy(dirs[InstallDir]) = WorkingCopy(dirs0[InstallDir])

\* C2 amended: once the operator has declined the prompt, the update has
\* failed and the run has ended, no abort, checkout, reset or clean has run,
\* and install_dir is as it was when the prompt was shown: as the failed pull
\* left it, which is as it was before the run unless that pull stopped on a
\* merge conflict.
C2_DeclinePreservesState ==
    (run = "install" /\ prompted /\ response \in DeclineAnswers) =>
        /\ outcome = "failed" /\ result = "failed" /\ pc = "done"
        /\ \A e \in oplog : e.dir # InstallDir
        /\ dirs[InstallDir] = at_prompt
        /\ ~pull_conflict =>
              WorkingCopy(dirs[InstallDir]) = WorkingCopy(dirs0[InstallDir])

\* A declined prompt on a working copy with a local modification.
C2_Witness ==
    /\ run = "install" /\ prompted /\ response = "" /\ pc = "done"
    /\ Line(" M", "README.md") \in dirs[InstallDir].status
    /\ ~pull_conflict

\* C3: when the branch read differs from the target branch, the update never
\* shows the prompt whatever the working copy holds, and after the failed
\* pull and the successful fetch its next step is the abort and forced
\* checkout, with no status query in between.
C3_BranchSwitchNeverPrompts ==
    /\ [](current_branch \notin {"none", INSTALL_BRANCH} =>
            ~prompted /\ pc # "prompt" /\ response = "none")
    /\ [][(pc = "detect" /\ current_branch # INSTALL_BRANCH) =>
            (pc' = "force" /\ verdict' = verdict /\ dirs' = dirs)]_vars

\* A branch switch over conflicts, local changes and untracked files that
\* reached the forced checkout unprompted.
C3_Witness ==
    /\ current_branch = OtherBranch /\ outcome = "updated" /\ ~prompted
    /\ \E e \in oplog : e.op = "force_clean_checkout"
    /\ Line("UU", "README.md") \in dirs0[InstallDir].status
    /\ Line("??", "notes.txt") \in dirs0[InstallDir].status

\* C4: the installer's cleanup and the uninstaller's directory removal never
\* remove a directory that has no .git directory.
C4_CleanupKeepsNonGit ==
    /\ \A e \in oplog : e.by \in {"cleanup", "uninstall"} => e.git
    /\ \A d \in Dirs :
          (Handled(d) /\ dirs0[d].exists /\ ~dirs0[d].git /\ ~dirs[d].exists)
             => \E e \in oplog : e.dir = d /\ e.by \in {"migrate", "fresh_clone"}

\* A directory without .git that the cleanup loop handled and left in place.
C4_Witness ==
    \E d \in LegacyDirs :
        /\ run = "install" /\ Handled(d)
        /\ ~dirs0[d].git /\ dirs[d] = dirs0[d] /\ dirs[d].exists

\* C5: cleanup (installer and uninstaller) never removes a working copy whose
\* status check failed.
C5_FailedCheckPreserves ==
    \A e \in oplog : e.by \in {"cleanup", "uninstall"} => e.check # "error"

\* C6 as stated: a working copy the cleanup handled is still there when its
\* status showed a change, and gone when its status showed none.
C6_CleanupFollowsStatus ==
    \A d \in Dirs :
        (Handled(d) /\ dirs0[d].git) =>
            /\ verdict[d] = "dirty" => dirs[d].exists
            /\ verdict[d] = "clean" => ~dirs[d].exists

\* C6 amended: a working copy the cleanup handled is still there, untouched,
\* when its status showed any change (the manifest's included), and when its
\* status showed none it is gone unless its removal itself raised.
C6_CleanupFollowsStatusOrFails ==
    \A d \in Dirs :
        (Handled(d) /\ dirs0[d].git) =>
            /\ verdict[d] = "dirty" => dirs[d].exists /\ dirs[d] = dirs0[d]
            /\ verdict[d] = "clean" => ~dirs[d].exists \/ d \in rm_failed

\* The cleanup has kept a working copy whose only change is the manifest and
\* removed a clean one.
C6_Witness ==
    \E d \in LegacyDirs, c \in LegacyDirs :
        /\ Handled(d) /\ Handled(c)
        /\ dirs0[d].git /\ dirs0[d].status = {Line(" M", Manifest)}
        /\ verdict[d] = "dirty" /\ dirs[d].exists
        /\ dirs0[c].git /\ verdict[c] = "clean" /\ ~dirs[c].exists

\* C7: right after a successful migration, an old working copy that had
\* uncommitted changes is still on disk, and one that had none is gone unless
\* its removal raised.
C7_MigrationKeepsChanges ==
    (outcome = "migrated" /\ pc = "setup_helper_script") =>
        LET old == old_installations[1]
        IN  /\ (dirs0[old].git /\ dirs0[old].status # {}) => dirs[old].exists
            /\ (dirs0[old].git /\ dirs0[old].status = {}) =>
                  ~dirs[old].exists \/ old \in rm_failed

\* C8: when _fresh_clone fails during a migration the migration has failed and
\* the old directory is as it was; the migration has removed the old directory
\* only with the clone done and the marker file present at install_dir.
C8_FailedCloneKeepsOld ==
    "migrate" \in paths =>
        LET old == old_installations[1]
        IN  /\ outcome # "migrated" =>
                  (outcome = "failed" /\ dirs[old] = dirs0[old])
            /\ \A e \in oplog : e.by = "migrate" =>
                  /\ outcome = "migrated"
                  /\ dirs[InstallDir].exists /\ dirs[InstallDir].marker

\* A migration whose clone failed, from a clean old working copy.
C8_Witness ==
    /\ "migrate" \in paths /\ outcome = "failed" /\ ~clone_exit0
    /\ LET old == old_installations[1]
       IN  dirs0[old].git /\ dirs0[old].status = {} /\ dirs[old].exists

\* C9: _fresh_clone has succeeded (alone or within a migration) only with the
\* marker file under install_dir, and a clone that exited 0 without the marker
\* file has failed.
C9_CloneNeedsMarker ==
    /\ outcome \in {"freshInstalled", "migrated"} =>
          dirs[InstallDir].exists /\ dirs[InstallDir].marker
    /\ (clone_exit0 /\ ~dirs[InstallDir].marker) => outcome = "failed"

\* git clone exited 0, the marker file is missing, the fresh install failed.
C9_Witness ==
    /\ paths = {"fresh"} /\ clone_exit0 /\ dirs[InstallDir].exists
    /\ ~dirs[InstallDir].marker /\ outcome = "failed"

\* C10: a run takes exactly one of the three paths: the update when install_dir
\* existed with the marker file, the migration from the first legacy candidate
\* when it did not and a candidate was found, the fresh clone when it did not
\* and none was found.
C10_ExactlyOnePath ==
    LET complete == dirs0[InstallDir].exists /\ dirs0[InstallDir].marker
        found == \E d \in LegacyDirs : dirs0[d].exists
    IN  /\ Cardinality(paths) <= 1
        /\ outcome # "none" => Cardinality(paths) = 1
        /\ "update" \in paths => complete
        /\ "migrate" \in paths => ~complete /\ found
        /\ "fresh" \in paths => ~complete /\ ~found
        /\ outcome = "updated" => paths = {"update"}
        /\ outcome = "migrated" => paths = {"migrate"}
        /\ outcome = "freshInstalled" => paths = {"fresh"}
        /\ \A e \in oplog :
              /\ e.by = "update" => paths = {"update"}
              /\ e.by = "migrate" =>
                    /\ paths = {"migrate"}
                    /\ e.dir = old_installations[1]
                    /\ \A d \in LegacyDirs : dirs0[d].exists => e.dir <= d

\* A migration from the first of two candidates, the second left alone.
C10_Witness ==
    /\ paths = {"migrate"} /\ outcome = "migrated" /\ pc = "setup_helper_script"
    /\ Len(old_installations) = 2
    /\ ~dirs[old_installations[1]].exists
    /\ dirs[old_installations[2]] = dirs0[old_installations[2]]
    /\ dirs0[InstallDir].exists /\ ~dirs0[InstallDir].marker

\* ---------------------------------------------------- the git helpers
\* Everything of the main run, the settings rewrite and the scanner that a
\* helper called on its own leaves alone.
core == <<dirs, command_refs, hook_refs, old_installations, installations,
          idx, current_branch, needs_user_confirmation, response, outcome,
          dirs0, at_prompt, oplog, verdict, paths, prompted, pull_conflict,
          clone_exit0, rm_failed, pull_failed, steps>>

\* The state of an object on which no installation step has run.
CoreIdle ==
    /\ dirs = [d \in Dirs |-> Absent]
    /\ command_refs = {}
    /\ hook_refs = {}
    /\ old_installations = <<>>
    /\ installations = <<>>
    /\ idx = 1
    /\ current_branch = "none"
    /\ needs_user_confirmation = FALSE
    /\ response = "none"
    /\ outcome = "none"
    /\ dirs0 = dirs
    /\ at_prompt = Absent
    /\ oplog = {}
    /\ verdict = [d \in Dirs |-> "none"]
    /\ paths = {}
    /\ prompted = FALSE
    /\ pull_conflict = FALSE
    /\ clone_exit0 = FALSE
    /\ rm_failed = {}
    /\ pull_failed = FALSE
    /\ steps = <<>>

\* Lines `git status --porcelain` can print: those of StatusLines and the
\* other two unmerged states.
QueryLines ==
    StatusLines \cup {Line("AA", "README.md"), Line("DD", Manifest)}

\* The working copies a helper is called on.
QueryRepos ==
    { [exists |-> TRUE, git |-> TRUE, marker |-> TRUE, branch |-> b,
       status |-> s, inflight |-> "none", rebase |-> "unset"] :
        b \in {INSTALL_BRANCH, OtherBranch}, s \in Listings(QueryLines) }

Helpers == {"has_uncommitted_changes", "has_conflicts", "force_clean_checkout"}

\* A helper about to be called on a working copy: the status helpers with one
\* outcome of `git status` and exclude_manifest, the forced checkout with the
\* outcomes of its four steps.
GitInit ==
    /\ run = "install"
    /\ pc = "helper"
    /\ result = "none"
    /\ \E fn \in Helpers, t \in QueryRepos, out \in GitOutcomes,
          ex \in BOOLEAN, o \in [1..4 -> GitOutcomes] :
         /\ o \in ForceOutcomes(t)
         /\ fn = "force_clean_checkout" => (out = "ok" /\ ex = TRUE)
         /\ fn # "force_clean_checkout" => o = [i \in 1..4 |-> "ok"]
         /\ fn # "force_clean_checkout" => t.branch = INSTALL_BRANCH
         /\ query = [fn |-> fn, repo |-> t, out |-> out, exclude |-> ex,
                     steps |-> o]
    /\ answer = NoAnswer
    /\ CoreIdle
    /\ UpdateIdle
    /\ RoundTripIdle
    /\ SettingsIdle
    /\ ScanIdle

\* _git_has_uncommitted_changes(repo_dir, exclude_manifest)
GitHasUncommittedChanges ==
    /\ pc = "helper"
    /\ query.fn = "has_uncommitted_changes"
    /\ answer' = [done |-> TRUE, repo |-> query.repo,
                  value |-> git_has_uncommitted_changes(
                                query.out, query.repo.status, query.exclude)]
    /\ pc' = "returned"
    /\ UNCHANGED <<core, run, result, query, roundtrip,
                   first_run, settings, backup, temp,
                   settings_data, os_nt, settings0, fsops, command_file,
                   scan_settings, cwd_dir, scanned>>

\* _git_has_conflicts(repo_dir, exclude_manifest)
GitHasConflicts ==
    /\ pc = "helper"
    /\ query.fn = "has_conflicts"
    /\ answer' = [done |-> TRUE, repo |-> query.repo,
                  value |-> git_has_conflicts(
                                query.out, query.repo.status, query.exclude)]
    /\ pc' = "returned"
    /\ UNCHANGED <<core, run, result, query, roundtrip,
                   first_run, settings, backup, temp,
                   settings_data, os_nt, settings0, fsops, command_file,
                   scan_settings, cwd_dir, scanned>>

\* _git_force_clean_checkout(repo_dir, target_branch)
GitForceCleanCheckout ==
    /\ pc = "helper"
    /\ query.fn = "force_clean_checkout"
    /\ LET fc == git_force_clean_checkout(query.repo, query.steps)
       IN  answer' = [done |-> TRUE, repo |-> fc.dir, value |-> fc.ok]
    /\ pc' = "returned"
    /\ UNCHANGED <<core, run, result, query, roundtrip,
                   first_run, settings, backup, temp,
                   settings_data, os_nt, settings0, fsops, command_file,
                   scan_settings, cwd_dir, scanned>>

GitNext ==
    \/ GitHasUncommittedChanges
    \/ GitHasConflicts
    \/ GitForceCleanCheckout

GitSpec == GitInit /\ [][GitNext]_vars

\* The lines of a listing that are unmerged (UU, AA, DD).
ConflictLines(listing) == { l \in listing : l.xy \in ConflictStates }

\* C17: for a working copy whose only modification is to
\* docs/docs_manifest.json (and whose status can be read),
\* _git_has_uncommitted_changes answers False with exclude_manifest and True
\* without it.
C17_ManifestOnlyChange ==
    ( /\ answer.done
      /\ query.fn = "has_uncommitted_changes"
      /\ query.out = "ok"
      /\ query.repo.status # {}
      /\ \A l \in query.repo.status : MentionsManifest(l) )
    => (answer.value <=> ~query.exclude)

C17_Witness ==
    /\ answer.done
    /\ query.fn = "has_uncommitted_changes"
    /\ query.out = "ok"
    /\ query.repo.status = {Line(" M", Manifest)}
    /\ query.exclude
    /\ ~answer.value

\* C18: _git_has_conflicts answers True when some line of the listing starts
\* with UU, AA or DD and is not about the manifest file, and False under
\* exclude_manifest when every such line is about the manifest file.
C18_ConflictDetection ==
    ( /\ answer.done
      /\ query.fn = "has_conflicts"
      /\ query.out = "ok" )
    => LET cl == ConflictLines(query.repo.status)
       IN  /\ (\E l \in cl : ~MentionsManifest(l)) => answer.value
           /\ (query.exclude /\ \A l \in cl : MentionsManifest(l))
                 => ~answer.value

C18_Witness ==
    /\ answer.done
    /\ query.fn = "has_conflicts"
    /\ query.out = "ok"
    /\ query.exclude
    /\ query.repo.status = {Line("UU", Manifest), Line(" M", "README.md")}
    /\ ~answer.value

\* C20: _git_force_clean_checkout reports success only if each of its four
\* steps (reset, checkout -B, reset --hard, clean -fd) succeeded.
C20_ForceSucceedsOnlyIfAllStepsDid ==
    ( /\ answer.done
      /\ query.fn = "force_clean_checkout"
      /\ answer.value )
    => \A i \in 1..4 : query.steps[i] = "ok"

\* ------------------------------------------- the update, run after run
\* _safe_git_update is called on an install_dir that holds the marker file
\* (clone_or_update_repo, install.py 903-915), by one installer run and then
\* by the next.
UpdateInit ==
    /\ run = "install"
    /\ pc = "safe_git_update"
    /\ result = "none"
    /\ \E t \in TargetStates :
         /\ t.exists /\ t.marker
         /\ dirs = [d \in Dirs |-> IF d = InstallDir THEN t ELSE Absent]
    /\ command_refs = {InstallDir}
    /\ hook_refs = {InstallDir}
    /\ old_installations = <<>>
    /\ installations = <<>>
    /\ idx = 1
    /\ current_branch = "none"
    /\ needs_user_confirmation = FALSE
    /\ response = "none"
    /\ outcome = "none"
    /\ dirs0 = dirs
    /\ at_prompt = Absent
    /\ oplog = {}
    /\ verdict = [d \in Dirs |-> "none"]
    /\ paths = {}
    /\ prompted = FALSE
    /\ pull_conflict = FALSE
    /\ clone_exit0 = FALSE
    /\ rm_failed = {}
    /\ pull_failed = FALSE
    /\ steps = <<>>
    /\ UpdateIdle
    /\ RoundTripIdle
    /\ SettingsIdle
    /\ ScanIdle
    /\ QueryIdle

\* _safe_git_update has returned (True: on to the helper script; False: the
\* run is over).
UpdateReturned == pc \in {"setup_helper_script", "done"}

\* The next run's _safe_git_update, on install_dir as the earlier one left it.
UpdateAgain ==
    /\ UpdateReturned
    /\ first_run = NoRun
    /\ first_run' = [outcome |-> outcome, before |-> dirs0[InstallDir],
                     after |-> dirs[InstallDir], pull_failed |-> pull_failed]
    /\ pc' = "safe_git_update"
    /\ result' = "none"
    /\ outcome' = "none"
    /\ response' = "none"
    /\ current_branch' = "none"
    /\ needs_user_confirmation' = FALSE
    /\ dirs0' = dirs
    /\ at_prompt' = Absent
    /\ oplog' = {}
    /\ verdict' = [d \in Dirs |-> "none"]
    /\ paths' = {}
    /\ prompted' = FALSE
    /\ pull_conflict' = FALSE
    /\ pull_failed' = FALSE
    /\ steps' = <<>>
    /\ UNCHANGED <<world, run, old_installations, installations, idx,
                   clone_exit0, rm_failed, roundtrip, settings, backup, temp,
                   settings_data, os_nt, settings0, fsops, command_file,
                   scan_settings, cwd_dir, scanned, query, answer>>

UpdateNext ==
    \/ SafeGitUpdatePull
    \/ SafeGitUpdateFetch
    \/ SafeGitUpdateDetect
    \/ SafeGitUpdatePrompt
    \/ SafeGitUpdateForce
    \/ UpdateAgain

UpdateSpec == UpdateInit /\ [][UpdateNext]_vars

\* A working copy on the target branch with nothing modified, untracked,
\* unmerged or in progress.
CleanOnTarget(t) ==
    /\ t.exists /\ t.git
    /\ t.status = {}
    /\ t.inflight = "none"
    /\ t.branch = INSTALL_BRANCH

\* C19: two _safe_git_update runs in succession on a clean working copy on the
\* target branch, whose `git pull` finds nothing new and exits 0, both return
\* True (updated) and each leaves the working tree as it found it.
C19_UpdateTwiceIdempotent ==
    ( /\ first_run # NoRun
      /\ CleanOnTarget(first_run.before)
      /\ ~first_run.pull_failed )
    => /\ first_run.outcome = "updated"
       /\ WorkingCopy(first_run.after) = WorkingCopy(first_run.before)
       /\ (UpdateReturned /\ ~pull_failed)
             => /\ outcome = "updated"
                /\ WorkingCopy(dirs[InstallDir]) = WorkingCopy(first_run.before)

C19_Witness ==
    /\ first_run # NoRun
    /\ CleanOnTarget(first_run.before)
    /\ ~first_run.pull_failed
    /\ first_run.outcome = "updated"
    /\ UpdateReturned
    /\ ~pull_failed
    /\ outcome = "updated"
    /\ dirs[InstallDir] = first_run.after

\* ------------------------------------------------ the settings rewrite
\* setup_claude_hooks (install.py) and remove_hooks (uninstall.py) step by
\* step over the three files: settings.json, settings.json.backup and
\* settings.json.tmp.

\* Elements of hooks.PreToolUse a settings file starts with.
MaxHooks == 2

\* An element of PreToolUse: a dict with "hooks" one of whose commands
\* contains "claude-code-docs" (ours), a dict with "hooks" and no such command
\* (other), a dict without "hooks" (nohooks), a value that is no dict
\* (scalar).  id is the element's position in the file; the hook the
\* installer appends has id 0.
EntryKinds == {"ours", "other", "nohooks", "scalar"}
Entry(k, i) == [kind |-> k, id |-> i]
HookLists ==
    UNION { { [i \in 1..n |-> Entry(ks[i], i)] : ks \in [1..n -> EntryKinds] } :
            n \in 0..MaxHooks }

\* A settings file that holds a JSON object.
Doc(model, has_hooks, post, has_pre, pre) ==
    [shape |-> "dict", model |-> model, has_hooks |-> has_hooks, post |-> post,
     has_pre |-> has_pre, pre |-> pre]
SettingsDocs ==
    { Doc(m, FALSE, FALSE, FALSE, <<>>) : m \in BOOLEAN }
    \cup { Doc(m, TRUE, p, FALSE, <<>>) : m \in BOOLEAN, p \in BOOLEAN }
    \cup { Doc(m, TRUE, p, TRUE, h) : m \in BOOLEAN, p \in BOOLEAN, h \in HookLists }

\* A file that is no JSON object: not JSON at all (invalid; also a file
\* whose write stopped half way), a JSON list, an object whose "hooks" is a
\* number, an object whose hooks.PreToolUse is a number.
Odd(s) == [NoFile EXCEPT !.shape = s]
OddShapes == {"list", "hooks_not_dict", "pre_not_list"}
SettingsFiles ==
    {NoFile, Odd("invalid")} \cup { Odd(s) : s \in OddShapes } \cup SettingsDocs

\* `isinstance(hook, dict) and "hooks" in hook`
has_expected_structure(e) == e.kind \in {"ours", "other"}

\* `"claude-code-docs" in command` for a command of the element
references_tool(e) == e.kind = "ours"

\* setup_claude_hooks keeping every element it finds.
install_keeps_everything(e) == TRUE

\* The loop of setup_claude_hooks (install.py 1302-1319): an element is
\* dropped only if it has the structure and names the tool.
install_keeps(e) == ~(has_expected_structure(e) /\ references_tool(e))

\* The loop of remove_hooks (uninstall.py 364-379): an element is appended
\* only inside `if isinstance(hook_entry, dict) and 'hooks' in hook_entry`.
uninstall_keeps(e) == has_expected_structure(e) /\ ~references_tool(e)

\* new_hook (install.py 1322-1330)
new_hook == Entry("ours", 0)

\* What setup_claude_hooks does with a settings file it cannot rewrite:
\* `settings_data["hooks"] = {}` on a list, `["PreToolUse"] = []` on a
\* number, `for hook in` a number raise TypeError.
setup_hooks_raises(f) == f.shape \in OddShapes

\* settings_data as setup_claude_hooks builds it (install.py 1279-1333): {}
\* for a missing or unparseable file.
setup_hooks_document(f) ==
    IF f.shape \in {"missing", "invalid"}
    THEN Doc(FALSE, TRUE, FALSE, TRUE, <<new_hook>>)
    ELSE [f EXCEPT !.has_hooks = TRUE, !.has_pre = TRUE,
                   !.pre = Append(SelectSeq(f.pre, install_keeps), new_hook)]

\* `'PreToolUse' in settings['hooks']` on a number raises TypeError.
remove_hooks_raises(f) == f.shape = "hooks_not_dict"

\* settings as remove_hooks leaves it in memory (uninstall.py 358-399): the
\* filter, then PreToolUse deleted when empty, then hooks deleted when empty.
remove_hooks_document(f) ==
    IF f.shape # "dict" THEN f
    ELSE LET f1 == IF f.has_hooks /\ f.has_pre
                   THEN [f EXCEPT !.pre = SelectSeq(f.pre, uninstall_keeps)]
                   ELSE f
             f2 == IF f1.has_hooks /\ f1.has_pre /\ f1.pre = <<>>
                   THEN [f1 EXCEPT !.has_pre = FALSE]
                   ELSE f1
         IN  IF f2.has_hooks /\ ~f2.has_pre /\ ~f2.post
             THEN [f2 EXCEPT !.has_hooks = FALSE]
             ELSE f2

\* `changed` of remove_hooks
remove_hooks_changed(f) == remove_hooks_document(f) # f

\* A rewrite that writes the new document over settings.json itself.
rewrite_in_place == "settings"

\* `temp_file = settings_file.with_suffix('.json.tmp')`: the file json.dump
\* writes to.
rewrite_target == "temp"

\* What a settings rewrite leaves alone.
beside_settings ==
    <<core, run, roundtrip, first_run, os_nt, settings0, command_file,
      scan_settings, cwd_dir, scanned, query, answer>>

SettingsInit ==
    /\ run \in {"install", "uninstall"}
    /\ pc = IF run = "install" THEN "hooks_load" ELSE "rm_load"
    /\ result = "none"
    /\ settings \in SettingsFiles
    /\ settings0 = settings
    /\ os_nt \in BOOLEAN
    /\ backup = NoFile
    /\ temp = NoFile
    /\ settings_data = NoFile
    /\ fsops = <<>>
    /\ CoreIdle
    /\ UpdateIdle
    /\ RoundTripIdle
    /\ ScanIdle
    /\ QueryIdle

\* The handler's `except`: the temporary file is removed if it is there and
\* the rewrite returns False.
rewrite_fails(op) ==
    /\ temp' = NoFile
    /\ fsops' = Append(fsops, op)
    /\ pc' = "done"
    /\ result' = "failed"

\* json.dump(settings_data) into the temporary file.  A write that raises
\* (disk full) leaves a partial file behind.
write_temp(here, next) ==
    /\ pc = here
    /\ \E io \in {"ok", "raise"} :
         IF rewrite_target = "temp"
         THEN /\ settings' = settings
              /\ IF io = "ok"
                 THEN /\ temp' = settings_data
                      /\ fsops' = Append(fsops, "temp")
                      /\ pc' = next
                      /\ result' = result
                 ELSE rewrite_fails("temp_failed")
         ELSE /\ settings' = IF io = "ok" THEN settings_data ELSE Odd("invalid")
              /\ IF io = "ok"
                 THEN /\ temp' = temp
                      /\ fsops' = Append(fsops, "temp")
                      /\ pc' = next
                      /\ result' = result
                 ELSE rewrite_fails("temp_failed")
    /\ UNCHANGED <<beside_settings, backup, settings_data>>

\* `if settings_file.exists(): settings_file.unlink()` on Windows.
unlink_settings(here, next) ==
    /\ pc = here
    /\ \E io \in {"ok", "raise"} :
         IF io = "ok"
         THEN /\ settings' = NoFile
              /\ fsops' = Append(fsops, "unlink")
              /\ pc' = next
              /\ UNCHANGED <<temp, result>>
         ELSE settings' = settings /\ rewrite_fails("unlink_failed")
    /\ UNCHANGED <<beside_settings, backup, settings_data>>

\* temp_file.replace(settings_file)
replace_settings(here, next) ==
    /\ pc = here
    /\ \E io \in {"ok", "raise"} :
         IF io = "ok"
         THEN /\ settings' = temp
              /\ temp' = NoFile
              /\ fsops' = Append(fsops, "replace")
              /\ pc' = next
              /\ result' = "ok"
         ELSE settings' = settings /\ rewrite_fails("replace_failed")
    /\ UNCHANGED <<beside_settings, backup, settings_data>>

\* setup_claude_hooks, install.py 1264-1333: mkdir, read, build settings_data.
\* A read error other than FileNotFoundError and a TypeError end it.
HooksLoad ==
    /\ pc = "hooks_load"
    /\ \E io \in {"ok", "raise"} :
         IF io = "raise" \/ setup_hooks_raises(settings)
         THEN pc' = "done" /\ result' = "failed"
                           /\ settings_data' = settings_data
         ELSE pc' = "hooks_write_temp" /\ result' = result
                /\ settings_data' = setup_hooks_document(settings)
    /\ UNCHANGED <<beside_settings, settings, backup, temp, fsops>>

\* install.py 1336-1339
HooksWriteTemp ==
    /\ run = "install"
    /\ write_temp("hooks_write_temp", "hooks_backup")

\* install.py 1342-1345: `if settings_file.exists(): shutil.copy2(...)`
HooksBackup ==
    /\ pc = "hooks_backup"
    /\ LET next == IF os_nt /\ settings.shape # "missing"
                   THEN "hooks_unlink" ELSE "hooks_replace"
       IN  IF settings.shape = "missing"
           THEN pc' = next /\ UNCHANGED <<backup, temp, fsops, result>>
           ELSE \E io \in {"ok", "raise"} :
                  IF io = "ok"
                  THEN /\ backup' = settings
                       /\ fsops' = Append(fsops, "backup")
                       /\ pc' = next
                       /\ UNCHANGED <<temp, result>>
                  ELSE backup' = backup /\ rewrite_fails("backup_failed")
    /\ UNCHANGED <<beside_settings, settings, settings_data>>

\* install.py 1348-1351
HooksUnlink ==
    /\ run = "install"
    /\ unlink_settings("hooks_unlink", "hooks_replace")

\* install.py 1352-1365
HooksReplace ==
    /\ run = "install"
    /\ replace_settings("hooks_replace", "done")

\* remove_hooks, uninstall.py 331-344: no file is no error; a file that
\* cannot be read or parsed returns False.
RemoveHooksLoad ==
    /\ pc = "rm_load"
    /\ IF settings.shape = "missing"
       THEN pc' = "done" /\ result' = "ok"
       ELSE \E io \in {"ok", "raise"} :
              IF io = "raise" \/ settings.shape = "invalid"
              THEN pc' = "done" /\ result' = "failed"
              ELSE pc' = "rm_backup" /\ result' = result
    /\ UNCHANGED <<beside_settings, settings, backup, temp, settings_data,
                   fsops>>

\* uninstall.py 346-353: a backup that cannot be made is a warning.
RemoveHooksBackup ==
    /\ pc = "rm_backup"
    /\ \E io \in {"ok", "raise"} :
         IF io = "ok"
         THEN backup' = settings /\ fsops' = Append(fsops, "backup")
         ELSE backup' = backup /\ fsops' = Append(fsops, "backup_failed")
    /\ pc' = "rm_filter"
    /\ UNCHANGED <<beside_settings, settings, temp, settings_data, result>>

\* uninstall.py 355-401 and 424-433: the filter; with nothing changed the
\* backup is removed (a failure to remove it is passed over) and the result
\* is True.
RemoveHooksFilter ==
    /\ pc = "rm_filter"
    /\ IF remove_hooks_raises(settings)
       THEN /\ pc' = "done" /\ result' = "failed"
            /\ UNCHANGED <<settings_data, backup, fsops>>
       ELSE /\ settings_data' = remove_hooks_document(settings)
            /\ IF remove_hooks_changed(settings)
               THEN /\ pc' = "rm_write_temp" /\ result' = result
                    /\ UNCHANGED <<backup, fsops>>
               ELSE /\ pc' = "done" /\ result' = "ok"
                    /\ \E io \in {"ok", "raise"} :
                         IF io = "ok" /\ backup.shape # "missing"
                         THEN /\ backup' = NoFile
                              /\ fsops' = Append(fsops, "backup_removed")
                         ELSE UNCHANGED <<backup, fsops>>
    /\ UNCHANGED <<beside_settings, settings, temp>>

\* uninstall.py 404-407
RemoveHooksWriteTemp ==
    /\ run = "uninstall"
    /\ write_temp("rm_write_temp",
                  IF os_nt THEN "rm_unlink" ELSE "rm_replace")

\* uninstall.py 410-413
RemoveHooksUnlink ==
    /\ run = "uninstall"
    /\ unlink_settings("rm_unlink", "rm_replace")

\* uninstall.py 414-423
RemoveHooksReplace ==
    /\ run = "uninstall"
    /\ replace_settings("rm_replace", "done")

SettingsNext ==
    \/ HooksLoad
    \/ HooksWriteTemp
    \/ HooksBackup
    \/ HooksUnlink
    \/ HooksReplace
    \/ RemoveHooksLoad
    \/ RemoveHooksBackup
    \/ RemoveHooksFilter
    \/ RemoveHooksWriteTemp
    \/ RemoveHooksUnlink
    \/ RemoveHooksReplace

SettingsSpec == SettingsInit /\ [][SettingsNext]_vars

\* The file operation op is among those the rewrite has carried out.
Did(op) == \E i \in 1..Len(fsops) : fsops[i] = op

\* C11: when writing the temporary file fails, settings.json is what it was
\* before the operation, a backup already made is still there with the
\* original's content, and the operation returns False.
C11_TempWriteFailureKeepsOriginal ==
    Did("temp_failed")
    => /\ settings = settings0
       /\ result = "failed"
       /\ Did("backup") => backup = settings0

C11_Witness ==
    /\ Did("temp_failed")
    /\ Did("backup")
    /\ settings0.shape = "dict"
    /\ settings = settings0
    /\ backup = settings0
    /\ result = "failed"

\* C12: at every step of a rewrite of an existing settings file, the
\* settings path holds the complete original document or the complete new
\* one, never nothing and never a partial file.
C12_SettingsNeverMissing ==
    settings0.shape # "missing"
    => /\ settings.shape # "missing"
       /\ settings \in {settings0, settings_data}

\* C13: in every rewrite of an existing settings file the backup copy is in
\* place before the temporary file is written and before the original is
\* removed or replaced.
C13_BackupComesFirst ==
    settings0.shape # "missing"
    => \A i \in 1..Len(fsops) :
         fsops[i] \in {"temp", "temp_failed", "unlink", "replace"}
         => \E j \in 1..(i - 1) : fsops[j] = "backup"

\* What of a settings document is not about the tool: the other top-level
\* keys, the other events, the elements of PreToolUse that do not name it.
not_ours(e) == ~references_tool(e)
Unrelated(f) ==
    [model |-> f.model, post |-> f.post, pre |-> SelectSeq(f.pre, not_ours)]

\* C14: a rewrite that succeeds leaves every other top-level key and every
\* PreToolUse element that does not name the tool, well-formed or not, in
\* place and in order.
C14_RewriteKeepsUnrelated ==
    ( /\ pc = "done"
      /\ Did("replace")
      /\ settings0.shape = "dict" )
    => Unrelated(settings) = Unrelated(settings0)

\* ------------------------------------------------------- the scanners
\* find_existing_installations (install.py) and find_installations
\* (uninstall.py) over the paths the two configuration files yield, as they
\* are spelled there.

\* Paths one source yields.
MaxCandidates == 2

\* install_dir, a second spelling of it, an older installation, a symlink to
\* that one, another installation, a directory that is gone.
InstallPath == "/home/u/.claude-code-docs"
PathTexts ==
    { "~/.claude-code-docs", InstallPath, "/home/u/claude-code-docs",
      "/opt/claude-code-docs", "/srv/claude-code-docs",
      "/gone/claude-code-docs" }

\* `if path_str.startswith('~'): path_str = str(Path.home()) + path_str[1:]`
expanduser(p) == IF p = "~/.claude-code-docs" THEN InstallPath ELSE p

\* path.is_dir()
is_dir(p) == p # "/gone/claude-code-docs"

\* path.resolve(): absolute, symlinks followed.
resolve(p) ==
    IF p = "/opt/claude-code-docs" THEN "/home/u/claude-code-docs"
    ELSE expanduser(p)

\* The order of resolved paths under list.sort().
path_rank(p) ==
    CASE p = InstallPath -> 0
      [] p = "/gone/claude-code-docs" -> 1
      [] p = "/home/u/claude-code-docs" -> 2
      [] p = "/opt/claude-code-docs" -> 3
      [] OTHER -> 4

PathLists ==
    UNION { [1..n -> PathTexts] : n \in 0..MaxCandidates }

\* A source: missing, unreadable (open raises PermissionError), not JSON,
\* JSON of another shape than {"hooks": {"PreToolUse": [...]}}, or readable
\* with the paths it names.
CommandFiles ==
    { [state |-> s, paths |-> <<>>] : s \in {"missing", "unreadable"} }
    \cup { [state |-> "ok", paths |-> ps] : ps \in PathLists }
SettingsSources ==
    { [state |-> s, paths |-> <<>>] :
        s \in {"missing", "unreadable", "invalid_json", "bad_shape"} }
    \cup { [state |-> "ok", paths |-> ps] : ps \in PathLists }

\* Path.cwd() when it holds docs/docs_manifest.json.
CwdDirs == {InstallPath, "/home/u/claude-code-docs"}

\* The paths a source adds to `paths`: each expanded, kept if it is a
\* directory.
found_in(src) ==
    IF src.state # "ok" THEN <<>>
    ELSE SelectSeq([i \in 1..Len(src.paths) |-> expanduser(src.paths[i])],
                   is_dir)

\* The warnings printed.
scan_warnings(cf, sf) ==
    (IF cf.state = "unreadable" THEN {"command_file"} ELSE {})
    \cup (IF sf.state = "invalid_json" THEN {"settings"} ELSE {})

\* `if manifest_file.exists() and current_dir != self.install_dir`
found_in_cwd(cwd) ==
    IF cwd # "none" /\ cwd # InstallPath THEN <<cwd>> ELSE <<>>

RECURSIVE dedupe_unresolved(_, _, _)
\* dedupe comparing the paths as they are spelled.
dedupe_unresolved(ps, seen, excluded) ==
    IF ps = <<>> THEN <<>>
    ELSE IF Head(ps) \in excluded \cup seen
         THEN dedupe_unresolved(Tail(ps), seen, excluded)
         ELSE <<resolve(Head(ps))>>
              \o dedupe_unresolved(Tail(ps), seen \cup {Head(ps)}, excluded)

RECURSIVE dedupe(_, _, _)
\* The loop over `paths` (install.py 881-889, uninstall.py 284-291): each
\* path resolved, skipped if excluded or seen.
dedupe(ps, seen, excluded) ==
    IF ps = <<>> THEN <<>>
    ELSE LET abs_path == resolve(Head(ps))
         IN  IF abs_path \in excluded \cup seen
             THEN dedupe(Tail(ps), seen, excluded)
             ELSE <<abs_path>>
                  \o dedupe(Tail(ps), seen \cup {abs_path}, excluded)

RECURSIVE insert_path(_, _)
insert_path(x, s) ==
    IF s = <<>> THEN <<x>>
    ELSE IF path_rank(x) <= path_rank(Head(s)) THEN <<x>> \o s
    ELSE <<Head(s)>> \o insert_path(x, Tail(s))

RECURSIVE sort_paths(_)
\* unique_paths.sort()
sort_paths(s) ==
    IF s = <<>> THEN <<>> ELSE insert_path(Head(s), sort_paths(Tail(s)))

\* What the scan leaves alone.
beside_scan ==
    <<core, run, result, roundtrip, first_run, settings, backup, temp,
      settings_data, os_nt, settings0, fsops, command_file, scan_settings,
      cwd_dir, query, answer>>

ScanInit ==
    /\ run \in {"install", "uninstall"}
    /\ pc = "scan"
    /\ result = "none"
    /\ command_file \in CommandFiles
    /\ scan_settings \in SettingsSources
    /\ cwd_dir \in (IF run = "install" THEN CwdDirs \cup {"none"} ELSE {"none"})
    /\ scanned = NotScanned
    /\ CoreIdle
    /\ UpdateIdle
    /\ RoundTripIdle
    /\ SettingsIdle
    /\ QueryIdle

\* find_existing_installations (install.py 753-894)
InstallerScan ==
    /\ pc = "scan"
    /\ run = "install"
    /\ scanned' =
         IF command_file_raises(command_file) \/ settings_raises(scan_settings)
         THEN [raised |-> TRUE, paths |-> <<>>,
               warnings |-> scan_warnings(command_file, NoSource)]
         ELSE [raised |-> FALSE,
               warnings |-> scan_warnings(command_file, scan_settings),
               paths |-> sort_paths(dedupe(
                   found_in(command_file) \o found_in(scan_settings)
                       \o found_in_cwd(cwd_dir),
                   {}, {resolve(InstallPath)}))]
    /\ pc' = "scanned"
    /\ UNCHANGED beside_scan

\* find_installations (uninstall.py 162-296)
UninstallerScan ==
    /\ pc = "scan"
    /\ run = "uninstall"
    /\ scanned' =
         IF command_file_raises(command_file) \/ settings_raises(scan_settings)
         THEN [raised |-> TRUE, paths |-> <<>>,
               warnings |-> scan_warnings(command_file, NoSource)]
         ELSE [raised |-> FALSE,
               warnings |-> scan_warnings(command_file, scan_settings),
               paths |-> sort_paths(dedupe(
                   found_in(command_file) \o found_in(scan_settings),
                   {}, {}))]
    /\ pc' = "scanned"
    /\ UNCHANGED beside_scan

ScanNext ==
    \/ InstallerScan
    \/ UninstallerScan

ScanSpec == ScanInit /\ [][ScanNext]_vars

\* The elements of a sequence.
Range(s) == { s[i] : i \in 1..Len(s) }

\* The directories the sources and the working directory name.
Candidates ==
    { resolve(p) : p \in { q \in Range(command_file.paths)
                                  \cup Range(scan_settings.paths) : is_dir(q) } }
    \cup (IF cwd_dir = "none" THEN {} ELSE {resolve(cwd_dir)})

\* C15: the installer's scanner returns resolved absolute paths in ascending
\* order, none twice, never install_dir, one for each directory a source
\* names, however often and however spelled.
C15_ScanSortedUniqueWithoutTarget ==
    (pc = "scanned" /\ run = "install" /\ ~scanned.raised)
    => LET r == scanned.paths
       IN  /\ \A i \in 1..Len(r) : \A j \in 1..Len(r) :
                  i < j => path_rank(r[i]) < path_rank(r[j])
           /\ \A i \in 1..Len(r) : resolve(r[i]) = r[i] /\ r[i] # InstallPath
           /\ Range(r) = Candidates \ {InstallPath}

C15_Witness ==
    /\ pc = "scanned"
    /\ run = "install"
    /\ command_file.paths = <<"/opt/claude-code-docs", "~/.claude-code-docs">>
    /\ scan_settings.paths = <<"/home/u/claude-code-docs">>
    /\ scanned.paths = <<"/home/u/claude-code-docs">>

\* C16: no failure to read or parse the command file or settings.json makes
\* a scanner raise.
C16_ScanNeverRaises == pc = "scanned" => ~scanned.raised

\* ======================================================================
\* The order of the steps of a run, read off `steps`.
\* ======================================================================
Steps == { steps[i] : i \in 1..Len(steps) }

\* C21: in an update in place, once the fetch that follows the failed pull
\* has failed (non-zero exit, timeout or missing executable), the update has
\* returned failed and the run is over: nothing came after the fetch, the
\* prompt was not shown, neither the abort nor the forced checkout (checkout,
\* reset, clean) ran, and the failing fetch step itself left every directory
\* as it was.
C21_FetchFailureReturnsFailed ==
    /\ []("fetch_failed" \in Steps =>
            /\ steps = <<"pull_failed", "fetch_failed">>
            /\ pc = "done" /\ outcome = "failed" /\ result = "failed"
            /\ ~prompted /\ response = "none"
            /\ \A e \in oplog : e.dir # InstallDir)
    /\ [][(pc = "fetch" /\ pc' # "detect") => dirs' = dirs]_vars

\* A fetch that failed over a working copy with local changes on the target
\* branch, where a successful fetch would have led to the prompt.
C21_Witness ==
    /\ steps = <<"pull_failed", "fetch_failed">>
    /\ pc = "done" /\ outcome = "failed"
    /\ current_branch = INSTALL_BRANCH
    /\ Line(" M", "README.md") \in dirs[InstallDir].status

\* ======================================================================
\* A timeout against a non-zero exit of the same git command.
\* ======================================================================
\* The outcomes of a helper's git commands with every timeout (a RuntimeError
\* of _run_git_command) turned into a non-zero exit of the same command.
AsNonzero(out) == IF out = "raise" THEN "nonzero" ELSE out

\* C22: a helper of the reconciliation gives the same result, and leaves the
\* working copy in the same state (so it ran the same steps), when one of its
\* git commands times out as when that command exits non-zero.
C22_TimeoutSameAsNonzero ==
    answer.done =>
        LET fc == git_force_clean_checkout(
                      query.repo, [i \in 1..4 |-> AsNonzero(query.steps[i])])
        IN  /\ query.fn = "has_uncommitted_changes" =>
                 answer.value = git_has_uncommitted_changes(
                     AsNonzero(query.out), query.repo.status, query.exclude)
            /\ query.fn = "has_conflicts" =>
                 answer.value = git_has_conflicts(
                     AsNonzero(query.out), query.repo.status, query.exclude)
            /\ query.fn = "force_clean_checkout" =>
                 (answer.value = fc.ok /\ answer.repo = fc.dir)

\* C23: every install run and every uninstall run that has ended has returned
\* True or False; none has ended with an exception passing through install()
\* or uninstall().
C23_RunsReturnBoolean == pc = "done" => result \in {"ok", "failed"}

\* The outcomes of a reconciliation that succeeded.
Reconciled == {"updated", "migrated", "freshInstalled"}

\* The three configuration steps of install() that follow the reconciliation.
Rewiring == {"helper_script", "command_file", "hooks"}

\* C24: in an install run, once the reconciliation has returned failed the
\* run is over with exit code 1: the helper script, the command file and the
\* settings file were not written and cleanup removed nothing. A run that
\* exits 0 had a successful reconciliation, and a run that has ended after a
\* successful reconciliation and all three configuration steps exits 0.
C24_RewiringOnlyAfterReconciliation ==
    run = "install" =>
        /\ outcome = "failed" =>
             /\ pc = "done" /\ result = "failed"
             /\ Steps \cap Rewiring = {}
             /\ \A e \in oplog : e.by # "cleanup"
        /\ result = "ok" => (pc = "done" /\ outcome \in Reconciled)
        /\ (pc = "done" /\ outcome \in Reconciled /\ Rewiring \subseteq Steps)
             => result = "ok"

\* A migration that failed with legacy directories on the list: the run ended
\* there, and the directories cleanup would have removed are in place.
C24_Witness ==
    /\ run = "install" /\ pc = "done" /\ outcome = "failed"
    /\ "migrate" \in paths
    /\ Len(old_installations) = 2
    /\ dirs[old_installations[2]] = dirs0[old_installations[2]]
    /\ dirs0[old_installations[2]].git
    /\ dirs0[old_installations[2]].status = {}

\* C25: the migration step works on the first directory of the sorted list
\* and on install_dir only: it leaves every other legacy directory, and what
\* the run knows of it, as they were. In an install run a legacy directory
\* other than the first is changed by the cleanup pass or not at all.
C25_MigrationUsesFirstCandidateOnly ==
    /\ [][pc = "migrate_installation" =>
            \A d \in Dirs \ {InstallDir, old_installations[1]} :
                /\ dirs'[d] = dirs[d]
                /\ verdict'[d] = verdict[d]
                /\ \A e \in oplog' : e.dir = d => e \in oplog]_vars
    /\ []((run = "install" /\ Len(old_installations) > 0) =>
            /\ \A e \in oplog :
                  e.by = "migrate" => e.dir = old_installations[1]
            /\ \A d \in Dirs \ {InstallDir, old_installations[1]} :
                  dirs[d] # dirs0[d] =>
                      \E e \in oplog : e.dir = d /\ e.by = "cleanup")

\* A migration with two clean legacy working copies: the first was removed by
\* the migration, the second was still there after it and was removed by the
\* cleanup pass.
C25_Witness ==
    /\ run = "install" /\ pc = "done" /\ outcome = "migrated"
    /\ Len(old_installations) = 2
    /\ \E e \in oplog : e.dir = old_installations[1] /\ e.by = "migrate"
    /\ \E e \in oplog : e.dir = old_installations[2] /\ e.by = "cleanup"
    /\ ~dirs[old_installations[1]].exists
    /\ ~dirs[old_installations[2]].exists

\* C26: an update in place leaves the repository's pull.rebase setting as it
\* was when it had a value before the run; the only change the update makes
\* to it is from unset to false.
C26_PullRebaseSetOnlyWhenUnset ==
    (run = "install" /\ "update" \in paths) =>
        LET before == dirs0[InstallDir].rebase
            after == dirs[InstallDir].rebase
        IN  /\ before # "unset" => after = before
            /\ after # before => (before = "unset" /\ after = "false")

\* An update over a repository with pull.rebase true that went all the way
\* through the forced checkout: the setting is still true.
C26_Witness ==
    /\ run = "install" /\ "update" \in paths /\ outcome = "updated"
    /\ "force_ok" \in Steps
    /\ dirs0[InstallDir].rebase = "true"
    /\ dirs[InstallDir].rebase = "true"

\* The lines of a status listing that the manifest exclusion leaves: the
\* conflicts, local changes and untracked files outside docs/docs_manifest.json.
Blocking(listing) == { l \in listing : ~MentionsManifest(l) }

UpdateSteps ==
    {"pull_ok", "pull_failed", "fetch_ok", "fetch_failed", "detect", "prompt",
     "abort", "force_ok", "force_failed"}

\* C28: in every update in place the pull comes first; a pull that succeeded
\* is the only step of the update and the outcome is updated; a forced clean
\* checkout on record has before it, in this order, the failed pull, the
\* successful fetch, the change detection (with the prompt when one was
\* shown) and the abort of merge and rebase; the abort is always followed by
\* the forced checkout, whose result alone decides the outcome.
C28_UpdateStepsInFixedOrder ==
    LET upd == SelectSeq(steps, LAMBDA s : s \in UpdateSteps)
        forced == Steps \cap {"force_ok", "force_failed"} # {}
    IN  /\ upd # <<>> => upd[1] \in {"pull_ok", "pull_failed"}
        /\ "pull_ok" \in Steps =>
             /\ upd = <<"pull_ok">>
             /\ outcome = "updated"
             /\ \A e \in oplog : e.dir # InstallDir
        /\ forced =>
             upd \in { <<"pull_failed", "fetch_ok", "detect", "abort", f>> :
                          f \in {"force_ok", "force_failed"} }
                 \cup { <<"pull_failed", "fetch_ok", "detect", "prompt",
                          "abort", f>> : f \in {"force_ok", "force_failed"} }
        /\ "abort" \in Steps => forced
        /\ "force_ok" \in Steps => outcome = "updated"
        /\ "force_failed" \in Steps => outcome = "failed"

\* An update with nothing in progress, so that both aborts failed, whose
\* forced checkout then succeeded.
C28_Witness ==
    /\ steps = <<"pull_failed", "fetch_ok", "detect", "prompt", "abort",
                 "force_ok">>
    /\ pc = "setup_helper_script" /\ outcome = "updated"
    /\ at_prompt.inflight = "none"

\* The list the cleanup of this run goes through, and whether the run got as
\* far as the cleanup.
CleanupList == IF run = "install" THEN old_installations ELSE installations
CleanupBegan ==
    \/ run = "install" /\ "hooks" \in Steps
    \/ run = "uninstall" /\ "hooks_removed" \in Steps

\* C29: a run (installer or uninstaller) that got as far as the cleanup and
\* has ended has gone through the whole list and returned True, whatever
\* status check or deletion failed on the way: every working copy on the
\* list had its status checked, and no failure ended the loop early.
C29_CleanupNeverAborts ==
    CleanupBegan =>
        /\ idx <= Len(CleanupList) + 1
        /\ pc \in {"cleanup_old_installations", "remove_directories", "done"}
        /\ pc = "done" =>
             /\ result = "ok"
             /\ idx = Len(CleanupList) + 1
             /\ \A i \in 1..Len(CleanupList) :
                   dirs0[CleanupList[i]].git => verdict[CleanupList[i]] # "none"

\* An uninstall run over two working copies: the status check of the first
\* failed (it was preserved), the second was clean and was removed after it.
C29_Witness ==
    /\ run = "uninstall" /\ pc = "done" /\ result = "ok"
    /\ Len(installations) = 2
    /\ verdict[installations[1]] = "error"
    /\ dirs[installations[1]].exists
    /\ verdict[installations[2]] = "clean"
    /\ ~dirs[installations[2]].exists

\* C30: in an install run, a legacy directory removed (or tried) by the
\* cleanup pass means that earlier in the run the reconciliation succeeded,
\* the helper script, the command file and the hooks were set up, in this
\* order, and that install_dir holds the marker file.
C30_CleanupOnlyAfterGoodInstall ==
    (run = "install" /\ \E e \in oplog : e.by = "cleanup") =>
        /\ outcome \in Reconciled
        /\ SelectSeq(steps, LAMBDA s : s \in Rewiring)
              = <<"helper_script", "command_file", "hooks">>
        /\ command_refs = {InstallDir} /\ hook_refs = {InstallDir}
        /\ dirs[InstallDir].exists /\ dirs[InstallDir].marker
        /\ pc \in {"cleanup_old_installations", "done"}

\* A migration that kept the first legacy working copy (it had changes) and
\* whose cleanup, after the three configuration steps, removed the second.
C30_Witness ==
    /\ run = "install" /\ outcome = "migrated"
    /\ Len(old_installations) = 2
    /\ dirs[old_installations[1]].exists
    /\ ~dirs[old_installations[2]].exists
    /\ \E e \in oplog : e.by = "cleanup" /\ e.dir = old_installations[2]
    /\ dirs[InstallDir].marker

\* ======================================================================
\* What a whole run keeps and discards.
\* ======================================================================
\* C31: when install_dir started the run on the target branch with a
\* conflict, a local change or an untracked file outside the manifest, the
\* forced clean checkout has run on it only after the operator answered y or
\* yes, whatever the branch query and the status queries of the run returned.
C31_NoDiscardWithoutYes ==
    ( /\ run = "install"
      /\ dirs0[InstallDir].branch = INSTALL_BRANCH
      /\ Blocking(dirs0[InstallDir].status) # {}
      /\ \E e \in oplog : e.dir = InstallDir /\ e.op = "force_clean_checkout" )
    => (prompted /\ is_affirmative(response))

\* C32: in an install run a legacy directory that had no .git directory when
\* the run started is still there, whether the migration or the cleanup pass
\* dealt with it.
C32_NonGitLegacyNeverDeleted ==
    run = "install" =>
        \A d \in LegacyDirs :
            (dirs0[d].exists /\ ~dirs0[d].git) => dirs[d].exists

\* C33: an install run never removes an install_dir that held the marker
\* file when the run started: such a directory is still there with its
\* marker, no rmtree was applied to it, and install_dir is never on the list
\* migration and cleanup work from; the only rmtree of install_dir is the one
\* of _fresh_clone, on a directory that lacked the marker.
C33_CompleteTargetNeverRemoved ==
    run = "install" =>
        /\ (dirs0[InstallDir].exists /\ dirs0[InstallDir].marker) =>
              /\ dirs[InstallDir].exists /\ dirs[InstallDir].marker
              /\ \A e \in oplog : ~(e.dir = InstallDir /\ e.op = "rmtree")
        /\ \A e \in oplog :
              (e.dir = InstallDir /\ e.op = "rmtree") =>
                  (e.by = "fresh_clone" /\ ~dirs0[InstallDir].marker)
        /\ \A i \in 1..Len(old_installations) :
              old_installations[i] # InstallDir

\* A complete install_dir that the command file and the hooks named, beside
\* two legacy working copies: the run updated it, cleanup removed the legacy
\* copies and install_dir is in place.
C33_Witness ==
    /\ run = "install" /\ pc = "done" /\ result = "ok"
    /\ dirs0[InstallDir].marker /\ dirs0[InstallDir].git
    /\ outcome = "updated"
    /\ Len(old_installations) = 2
    /\ \A i \in 1..2 : ~dirs[old_installations[i]].exists
    /\ dirs[InstallDir].exists /\ dirs[InstallDir].marker

\* ======================================================================
\* Runs in which nothing outside the program goes wrong.
\* ======================================================================
\* One step of a run in which git and the interpreter are there, the remote
\* is reachable, every filesystem operation succeeds and the operator answers
\* yes: the dependency check passes, the scanner reads its files, a clone
\* succeeds and carries the marker file, a removal succeeds, the git commands
\* run inside a working copy are answered (the pull alone may still fail, on
\* local changes or a conflict), and the forced checkout goes through.  What
\* git does outside a working copy is not a fault but what git does there.
NoFault ==
    /\ pc = "check_dependencies" => pc' # "done"
    /\ result' # "raised"
    /\ pc = "fresh_clone" => outcome' = "freshInstalled"
    /\ pc = "migrate_installation" =>
          (outcome' = "migrated" /\ rm_failed' = rm_failed)
    /\ rm_failed' = rm_failed
    /\ \A d \in Dirs : (dirs[d].git /\ verdict'[d] # verdict[d]) =>
                           verdict'[d] # "error"
    /\ (pc = "safe_git_update" /\ dirs[InstallDir].git) =>
          current_branch' = dirs[InstallDir].branch
    /\ (pc = "fetch" /\ dirs[InstallDir].git) => pc' = "detect"
    /\ pc = "detect" => pc' # "done"
    /\ pc = "prompt" => is_affirmative(response')
    /\ pc = "force" => outcome' = "updated"

FaultFreeNext ==
    \/ CheckDependencies /\ NoFault
    \/ FindExistingInstallations /\ NoFault
    \/ CloneOrUpdateRepo /\ NoFault
    \/ FreshClone /\ NoFault
    \/ MigrateInstallation /\ NoFault
    \/ SafeGitUpdatePull /\ NoFault
    \/ SafeGitUpdateFetch /\ NoFault
    \/ SafeGitUpdateDetect /\ NoFault
    \/ SafeGitUpdatePrompt /\ NoFault
    \/ SafeGitUpdateForce /\ NoFault
    \/ SetupHelperScript /\ NoFault
    \/ SetupClaudeCommand /\ NoFault
    \/ SetupClaudeHooks /\ NoFault
    \/ CleanupOldInstallation /\ NoFault
    \/ CleanupReturn /\ NoFault
    \/ FindInstallations /\ NoFault
    \/ UninstallConfirm /\ NoFault
    \/ RemoveCommandFile /\ NoFault
    \/ RemoveHooks /\ NoFault
    \/ RemoveDirectory /\ NoFault
    \/ RemoveDirectoriesReturn /\ NoFault

FaultFreeSpec == Init /\ [][FaultFreeNext]_vars

\* C34: an install run in which nothing outside the program goes wrong and
\* the operator answers yes ends, from every state of install_dir, with a
\* successful reconciliation and the marker file at install_dir.
C34_FaultFreeInstallReconciles ==
    (run = "install" /\ pc = "done") =>
        /\ outcome \in Reconciled
        /\ dirs[InstallDir].exists /\ dirs[InstallDir].marker

\* ======================================================================
\* Install, then uninstall: what the installer writes to docs.md and to
\* settings.json, and what the uninstaller's scan makes of it.
\* ======================================================================
\* A path is the sequence of its components; name and parent as in pathlib.
Homes == { <<"home", "u">>, <<"root">>, <<"home", "claude-code-docs">> }
name(p) == IF Len(p) = 0 THEN "" ELSE p[Len(p)]
parent(p) == IF Len(p) = 0 THEN p ELSE SubSeq(p, 1, Len(p) - 1)

\* _get_install_dir: Path(home) / ".claude-code-docs" (install.py 50-71)
get_install_dir(h) == h \o <<".claude-code-docs">>

\* `"claude-code-docs" in` a run of characters without blank or quote: one
\* of its components holds the text.
mentions(p) ==
    \E i \in 1..Len(p) : p[i] \in {"claude-code-docs", ".claude-code-docs"}

\* The lines of docs.md that matter to a scanner (install.py 1167-1250): each
\* with the text it starts with and the paths on it.  The first line names
\* the helper on Unix only, the usage lines carry the mirror's URL, the last
\* line is the Execute: line.
command_content(dir, nt) ==
    << [head |-> "Execute the",
        runs |-> IF nt THEN <<>> ELSE << dir \o <<"claude-docs-helper.sh">> >>],
       [head |-> "COMMUNITY MIRROR:",
        runs |-> << <<"github.com", "ericbuess", "claude-code-docs">> >>],
       [head |-> "Execute:",
        runs |-> << dir \o << IF nt THEN "claude-docs-helper.py"
                                    ELSE "claude-docs-helper.sh" >> >>] >>

\* hook_command (install.py 1271-1276): the helper's path, then " hook-check".
hook_command(dir, nt) ==
    << dir \o << IF nt THEN "claude-docs-helper.bat"
                       ELSE "claude-docs-helper.sh" >> >>

\* path.is_dir() on the disk of the run: the home directory and the
\* directories above it, and install_dir while it exists.  The helper
\* scripts are files.
path_is_dir(p, h, ds) ==
    \/ \E k \in 0..Len(h) : p = SubSeq(h, 1, k)
    \/ p = get_install_dir(h) /\ ds[InstallDir].exists

\* re.match(r'(.*/claude-code-docs)(/.*)?$', path_str) (uninstall.py 259-261):
\* the path up to its last component that is exactly claude-code-docs, the
\* path as it is without one.  str(Path) has no '/' on Windows.
dir_match(p, nt) ==
    LET ks == { k \in 1..Len(p) : p[k] = "claude-code-docs" }
    IN  IF nt \/ ks = {} THEN p
        ELSE SubSeq(p, 1, CHOOSE k \in ks : \A j \in ks : j <= k)

\* One line of docs.md (uninstall.py 192-210): on an `Execute:` line that
\* mentions claude-code-docs the first such run is taken; it is kept when it
\* is a directory, its parent is kept when that is a directory named
\* claude-code-docs.  The installer writes no LOCAL DOCS AT: line.
scan_command_line(line, h, ds) ==
    LET hits == SelectSeq(line.runs, mentions)
    IN  IF line.head # "Execute:" \/ hits = <<>> THEN <<>>
        ELSE IF path_is_dir(hits[1], h, ds) THEN <<hits[1]>>
        ELSE IF /\ path_is_dir(parent(hits[1]), h, ds)
                /\ name(parent(hits[1])) = "claude-code-docs"
             THEN <<parent(hits[1])>>
        ELSE <<>>

RECURSIVE scan_command_file(_, _, _)
scan_command_file(lines, h, ds) ==
    IF lines = <<>> THEN <<>>
    ELSE scan_command_line(Head(lines), h, ds)
            \o scan_command_file(Tail(lines), h, ds)

\* One hook command (uninstall.py 231-274): it has no quoted path; every run
\* that mentions claude-code-docs is cut by dir_match and kept when the
\* result is a directory.
scan_hook_command(runs, h, ds, nt) ==
    LET hits == SelectSeq(runs, mentions)
        cut == [i \in 1..Len(hits) |-> dir_match(hits[i], nt)]
    IN  SelectSeq(cut, LAMBDA p : path_is_dir(p, h, ds))

\* The end of find_installations (uninstall.py 280-296): duplicates dropped,
\* the list sorted.  The paths found lie on one branch of the tree, where
\* the shorter path sorts first.
RECURSIVE unique_sorted(_)
unique_sorted(S) ==
    IF S = {} THEN <<>>
    ELSE LET m == CHOOSE p \in S : \A q \in S : Len(p) <= Len(q)
         IN  <<m>> \o unique_sorted(S \ {m})

\* The directory of the model a found path is: install_dir, or a directory
\* at or above the home directory.
DirOf(p, h) == IF p = get_install_dir(h) THEN InstallDir ELSE 1

\* install_dir after a successful install, as the operator may have left it,
\* and the home directory (plain, or itself a working copy).
InstalledStates ==
    { [exists |-> TRUE, git |-> TRUE, marker |-> TRUE, branch |-> INSTALL_BRANCH,
       status |-> s, inflight |-> "none", rebase |-> r] :
        s \in {{}, {Line(" M", Manifest)}, {Line(" M", "README.md")}},
        r \in {"unset", "false"} }
HomeStates ==
    { [Absent EXCEPT !.exists = TRUE],
      [Absent EXCEPT !.exists = TRUE, !.git = TRUE] }

\* An install run whose reconciliation has succeeded, about to write docs.md.
RoundTripInit ==
    /\ run = "install"
    /\ pc = "setup_claude_command"
    /\ result = "none"
    /\ home \in Homes
    /\ os_nt \in BOOLEAN
    /\ \E t \in InstalledStates, hd \in HomeStates :
         dirs = [d \in Dirs |-> IF d = InstallDir THEN t
                                ELSE IF d = 1 THEN hd ELSE Absent]
    /\ dirs0 = dirs
    /\ outcome = "updated"
    /\ written_command = <<>>
    /\ written_hook = <<>>
    /\ found_paths = <<>>
    /\ command_refs = {}
    /\ hook_refs = {}
    /\ old_installations = <<>>
    /\ installations = <<>>
    /\ idx = 1
    /\ current_branch = "none"
    /\ needs_user_confirmation = FALSE
    /\ response = "none"
    /\ at_prompt = Absent
    /\ oplog = {}
    /\ verdict = [d \in Dirs |-> "none"]
    /\ paths = {}
    /\ prompted = FALSE
    /\ pull_conflict = FALSE
    /\ clone_exit0 = FALSE
    /\ rm_failed = {}
    /\ pull_failed = FALSE
    /\ steps = <<>>
    /\ UpdateIdle
    /\ settings = NoFile
    /\ backup = NoFile
    /\ temp = NoFile
    /\ settings_data = NoFile
    /\ settings0 = NoFile
    /\ fsops = <<>>
    /\ ScanIdle
    /\ QueryIdle

beside_roundtrip ==
    <<dirs, command_refs, hook_refs, old_installations, idx, current_branch,
      needs_user_confirmation, outcome, dirs0, at_prompt, oplog, verdict,
      paths, prompted, pull_conflict, clone_exit0, rm_failed, pull_failed,
      first_run, settings, backup, temp, settings_data, os_nt, settings0,
      fsops, command_file, scan_settings, cwd_dir, scanned, query, answer,
      home>>

\* setup_claude_command writes docs.md (install.py 1152-1260).
WriteCommandFile ==
    /\ run = "install"
    /\ pc = "setup_claude_command"
    /\ written_command' = command_content(get_install_dir(home), os_nt)
    /\ steps' = Append(steps, "command_file")
    /\ pc' = "setup_claude_hooks"
    /\ UNCHANGED <<beside_roundtrip, run, result, response, installations,
                   written_hook, found_paths>>

\* setup_claude_hooks writes the hook (install.py 1262-1369); the cleanup has
\* nothing to do and install() returns True.
WriteHook ==
    /\ run = "install"
    /\ pc = "setup_claude_hooks"
    /\ written_hook' = hook_command(get_install_dir(home), os_nt)
    /\ steps' = Append(steps, "hooks")
    /\ pc' = "done"
    /\ result' = "ok"
    /\ UNCHANGED <<beside_roundtrip, run, response, installations,
                   written_command, found_paths>>

\* The uninstaller is started after the install: find_installations
\* (uninstall.py 162-296) over what the installer wrote.
ScanWritten ==
    /\ run = "install"
    /\ pc = "done"
    /\ result = "ok"
    /\ run' = "uninstall"
    /\ LET got == scan_command_file(written_command, home, dirs)
                    \o scan_hook_command(written_hook, home, dirs, os_nt)
           list == unique_sorted(Range(got))
       IN  /\ found_paths' = list
           /\ installations' = [i \in 1..Len(list) |-> DirOf(list[i], home)]
    /\ steps' = <<>>
    /\ result' = "none"
    /\ pc' = "confirm"
    /\ UNCHANGED <<beside_roundtrip, response, written_command, written_hook>>

RoundTripNext ==
    \/ WriteCommandFile
    \/ WriteHook
    \/ ScanWritten
    \/ UninstallConfirm
    \/ RemoveCommandFile
    \/ RemoveHooks
    \/ RemoveDirectory
    \/ RemoveDirectoriesReturn

RoundTripSpec == RoundTripInit /\ [][RoundTripNext]_vars

\* C35: after a successful install the uninstaller's scan of docs.md and of
\* the hook finds install_dir, and a confirmed uninstall that ran to its end
\* has removed an install_dir that was a clean working copy.
C35_UninstallFindsInstallDir ==
    run = "uninstall" =>
        /\ get_install_dir(home) \in Range(found_paths)
        /\ ( /\ pc = "done" /\ result = "ok"
             /\ dirs0[InstallDir].status = {}
             /\ InstallDir \notin rm_failed ) => ~dirs[InstallDir].exists

\* C36: when an install run has ended, with success or with failure, neither
\* docs.md nor the hooks name a directory that existed when the run began
\* and that the run has removed.
C36_NoReferenceToRemovedDirectory ==
    (run = "install" /\ pc = "done") =>
        \A d \in command_refs \cup hook_refs :
            dirs0[d].exists => dirs[d].exists

\* ======================================================================
\* setup_claude_hooks run again and again over the same settings.json.
\* ======================================================================
\* Successful runs of setup_claude_hooks in one behaviour.
MaxRuns == 2

\* The rewrites that have replaced settings.json so far.
Replaced == Len(SelectSeq(fsops, LAMBDA op : op = "replace"))

\* The installer is started again after a successful setup_claude_hooks
\* (install.py 1262-1369 from the top, settings.json as the last run left it).
HooksAgain ==
    /\ run = "install"
    /\ pc = "done"
    /\ result = "ok"
    /\ Replaced < MaxRuns
    /\ pc' = "hooks_load"
    /\ result' = "none"
    /\ UNCHANGED <<beside_settings, settings, backup, temp, settings_data,
                   fsops>>

RepeatInit ==
    /\ SettingsInit
    /\ run = "install"

RepeatNext ==
    \/ HooksLoad
    \/ HooksWriteTemp
    \/ HooksBackup
    \/ HooksUnlink
    \/ HooksReplace
    \/ HooksAgain

RepeatSpec == RepeatInit /\ [][RepeatNext]_vars

\* The positions of PreToolUse whose element names the tool.
ToolHooks(f) == { i \in 1..Len(f.pre) : references_tool(f.pre[i]) }

\* C37: after one or more successful setup_claude_hooks runs, whatever
\* settings.json held at first, hooks.PreToolUse holds exactly one element
\* that names claude-code-docs, it is the last one and it is the hook for
\* install_dir; a further run leaves the document as the run before left it.
C37_OneToolHookAfterAnyRuns ==
    (run = "install" /\ pc = "done" /\ result = "ok") =>
        /\ settings.shape = "dict" /\ settings.has_hooks /\ settings.has_pre
        /\ ToolHooks(settings) = {Len(settings.pre)}
        /\ settings.pre[Len(settings.pre)] = new_hook
        /\ (Replaced >= 2 /\ backup.shape # "missing") => settings = backup

C37_Witness ==
    /\ run = "install" /\ pc = "done" /\ result = "ok"
    /\ Replaced = 2
    /\ settings0.shape = "dict"
    /\ ToolHooks(settings0) # {}
    /\ \E i \in 1..Len(settings0.pre) : settings0.pre[i].kind = "nohooks"
    /\ settings = backup

\* C38: when settings.json holds a JSON object none of whose PreToolUse
\* elements names claude-code-docs, remove_hooks leaves the file as it was,
\* writes no temporary file, replaces nothing, and returns True.
C38_NoToolHookNoRewrite ==
    ( /\ run = "uninstall"
      /\ settings0.shape = "dict"
      /\ ToolHooks(settings0) = {} ) =>
        /\ settings = settings0
        /\ ~Did("temp") /\ ~Did("unlink") /\ ~Did("replace")
        /\ (pc = "done" /\ settings_data.shape # "missing") => result = "ok"

\* The status lists something, and only untracked files whose name ends in
\* one of temp_extensions.
OnlyIgnoredUntracked(listing) ==
    /\ listing # {}
    /\ \A l \in listing : l.xy = "??" /\ Ext(l.path) \in temp_extensions

\* C39: on the target branch, a working copy whose status lists only
\* untracked .tmp, .log or .swp files goes through change detection without
\* the confirmation prompt.
C39_IgnoredUntrackedNeverPrompts ==
    [][(/\ pc = "detect"
        /\ current_branch = INSTALL_BRANCH
        /\ OnlyIgnoredUntracked(dirs[InstallDir].status)
        /\ verdict'[InstallDir] # "error") =>
           (pc' # "prompt" /\ ~needs_user_confirmation')]_vars

\* C40: when the operator answers the uninstaller's "Continue? (y/N)" with
\* anything but y or yes, or input ends or is interrupted, uninstall()
\* returns False at once: docs.md, settings.json and its hooks, the backup
\* and temporary files and every installation directory are as they were,
\* and no later step runs.
C40_DeclinedUninstallChangesNothing ==
    /\ []((run = "uninstall" /\ response \in DeclineAnswers) =>
            /\ pc = "done" /\ result = "failed"
            /\ dirs = dirs0
            /\ oplog = {}
            /\ steps = <<>>)
    /\ [][(run = "uninstall" /\ pc = "confirm" /\ ~is_affirmative(response')) =>
            /\ pc' = "done" /\ result' = "failed"
            /\ UNCHANGED <<dirs, command_refs, hook_refs, settings, backup,
                           temp>>]_vars

\* The uninstaller found a working copy named by docs.md and a directory
\* named by a hook, and input ended at the confirmation.
C40_Witness ==
    /\ run = "uninstall" /\ pc = "done" /\ result = "failed"
    /\ response = "EOF"
    /\ Len(installations) >= 1
    /\ \E c \in command_refs, h \in hook_refs :
         /\ c \in LegacyDirs /\ dirs[c].exists /\ dirs[c].git
         /\ h \in LegacyDirs /\ dirs[h].exists
=============================================================================
